---- MODULE Spec2Model ----
(***************************************************************************)
(* Model of three components of optking.                                   *)
(*  - The optimization-parameter object (src/optking/optparams.py): the    *)
(*    validated enumerated-string options, the constructor                 *)
(*    OptParams.__init__ with its derived defaults and convergence         *)
(*    presets, from_internal_dict, __setitem__ and                         *)
(*    update_dynamic_level_params.                                         *)
(*  - The JSON adapter jsonSchema (src/optking/qcdbjson.py).               *)
(*  - The torsion coordinate TORS (src/tors.py).                           *)
(* Each component has its own specification; the variables of the other    *)
(* components stay idle in it.                                             *)
(*                                                                         *)
(* Representation.                                                         *)
(*  - A Python string is a sequence of one-character strings, so that      *)
(*    str.upper() is computed character by character.                      *)
(*  - An object is its __dict__: a function from attribute names to        *)
(*    values.  Attributes created only on some paths (h_guess_every,       *)
(*    H_guess_every, print_trajectory_xyz_file, read_cartesian_H,          *)
(*    consecutiveBackstepsAllowed) are in the domain only when created.    *)
(*  - The option mapping uod is a function from the exact key strings the  *)
(*    caller used to values; uod.get(k, d) and `k in uod` are looked up    *)
(*    by the exact key, as the constructor does.                           *)
(*  - Floats are scaled integers.  Trust radii are in units of 1e-4        *)
(*    (0.5 is 5000, 0.001 is 10), convergence thresholds in units of 1e-7  *)
(*    (3.0e-4 is 3000, the inactive marker -1 is -10000000), sd_hessian    *)
(*    in tenths (1.0 is 10), fix_val_near_pi in hundredths (1.57 is 157).  *)
(*  - Attributes that the constructor copies from uod and that no rule     *)
(*    and no operation reads again are represented by geom_maxiter,        *)
(*    alg_geom_maxiter, print_lvl, rfo_root and bt_max_iter.               *)
(***************************************************************************)
EXTENDS Integers, Sequences, FiniteSets, TLC

VARIABLES uod, P, err, lastOp, nops,                       \* OptParams
          heap, JSON_dict, optking_json, jlast, ncalls,   \* jsonSchema
          T, tlast, ntors                                 \* TORS

paramVars == <<uod, P, err, lastOp, nops>>
jsonVars == <<heap, JSON_dict, optking_json, jlast, ncalls>>
torsVars == <<T, tlast, ntors>>
vars == <<paramVars, jsonVars, torsVars>>

\* no adapter and no document exist
JsonIdle ==
    /\ heap = <<>> /\ JSON_dict = 0 /\ optking_json = 0
    /\ jlast = [op |-> "idle"] /\ ncalls = 0

\* no torsion exists
TorsIdle == T = <<>> /\ tlast = [op |-> "idle"] /\ ntors = 0

(***************************************************************************)
(* Bounds of the model.                                                    *)
(***************************************************************************)
\* largest number of keys in an option mapping given to the constructor (SpecCtor)
MaxKeys == 3
\* largest number of keys in the option mapping of the object whose life Spec follows
InitKeys == 1
\* largest number of operations applied to an object after its construction
MaxOps == 2

(***************************************************************************)
(* Strings: the allowed values of the enumerated options, and the other    *)
(* spellings used as inputs.                                               *)
(***************************************************************************)
MIN == <<"M", "I", "N">>
TS == <<"T", "S">>
IRC == <<"I", "R", "C">>
RFO == <<"R", "F", "O">>
RS_I_RFO == <<"R", "S", "_", "I", "_", "R", "F", "O">>
P_RFO == <<"P", "_", "R", "F", "O">>
NR == <<"N", "R">>
SD == <<"S", "D">>
LINESEARCH == <<"L", "I", "N", "E", "S", "E", "A", "R", "C", "H">>
CONJUGATE == <<"C", "O", "N", "J", "U", "G", "A", "T", "E">>
REDUNDANT == <<"R", "E", "D", "U", "N", "D", "A", "N", "T">>
INTERNAL == <<"I", "N", "T", "E", "R", "N", "A", "L">>
DELOCALIZED == <<"D", "E", "L", "O", "C", "A", "L", "I", "Z", "E", "D">>
NATURAL == <<"N", "A", "T", "U", "R", "A", "L">>
CARTESIAN == <<"C", "A", "R", "T", "E", "S", "I", "A", "N">>
BOTH == <<"B", "O", "T", "H">>
FORWARD == <<"F", "O", "R", "W", "A", "R", "D">>
BACKWARD == <<"B", "A", "C", "K", "W", "A", "R", "D">>
QCHEM == <<"Q", "C", "H", "E", "M">>
MOLPRO == <<"M", "O", "L", "P", "R", "O">>
GAU == <<"G", "A", "U">>
GAU_LOOSE == <<"G", "A", "U", "_", "L", "O", "O", "S", "E">>
GAU_TIGHT == <<"G", "A", "U", "_", "T", "I", "G", "H", "T">>
GAU_VERYTIGHT == <<"G", "A", "U", "_", "V", "E", "R", "Y", "T", "I", "G", "H", "T">>
TURBOMOLE == <<"T", "U", "R", "B", "O", "M", "O", "L", "E">>
CFOUR == <<"C", "F", "O", "U", "R">>
NWCHEM_LOOSE == <<"N", "W", "C", "H", "E", "M", "_", "L", "O", "O", "S", "E">>
INTERFRAG_TIGHT == <<"I", "N", "T", "E", "R", "F", "R", "A", "G", "_", "T", "I", "G", "H", "T">>
NONE == <<"N", "O", "N", "E">>
BFGS == <<"B", "F", "G", "S">>
MS == <<"M", "S">>
POWELL == <<"P", "O", "W", "E", "L", "L">>
BOFILL == <<"B", "O", "F", "I", "L", "L">>
SCHLEGEL == <<"S", "C", "H", "L", "E", "G", "E", "L">>
FISCHER == <<"F", "I", "S", "C", "H", "E", "R">>
SIMPLE == <<"S", "I", "M", "P", "L", "E">>
LINDH == <<"L", "I", "N", "D", "H">>
LINDH_SIMPLE == <<"L", "I", "N", "D", "H", "_", "S", "I", "M", "P", "L", "E">>
SINGLE == <<"S", "I", "N", "G", "L", "E">>
MULTI == <<"M", "U", "L", "T", "I">>
FIXED == <<"F", "I", "X", "E", "D">>
PRINCIPAL_AXES == <<"P", "R", "I", "N", "C", "I", "P", "A", "L", "_", "A", "X", "E", "S">>
DEFAULT == <<"D", "E", "F", "A", "U", "L", "T">>
FISCHER_LIKE == <<"F", "I", "S", "C", "H", "E", "R", "_", "L", "I", "K", "E">>
FLETCHER == <<"F", "L", "E", "T", "C", "H", "E", "R">>
DESCENT == <<"D", "E", "S", "C", "E", "N", "T">>
POLAK == <<"P", "O", "L", "A", "K">>

\* input spellings
rfo == <<"r", "f", "o">>
sd_lc == <<"s", "d">>
irc_lc == <<"i", "r", "c">>
both_lc == <<"b", "o", "t", "h">>
fischer_lc == <<"f", "i", "s", "c", "h", "e", "r">>
Gau_Tight_mc == <<"G", "a", "u", "_", "T", "i", "g", "h", "t">>
bogus == <<"b", "o", "g", "u", "s">>
backward_lc == <<"b", "a", "c", "k", "w", "a", "r", "d">>
bofill_lc == <<"b", "o", "f", "i", "l", "l">>
multi_lc == <<"m", "u", "l", "t", "i">>
polak_lc == <<"p", "o", "l", "a", "k">>
ts_mc == <<"T", "s">>
cartesian_lc == <<"c", "a", "r", "t", "e", "s", "i", "a", "n">>

\* str.upper() on one character: a lower-case letter maps to its capital, anything else to itself
upper_char(c) ==
    CASE c = "a" -> "A"
      [] c = "b" -> "B"
      [] c = "c" -> "C"
      [] c = "d" -> "D"
      [] c = "e" -> "E"
      [] c = "f" -> "F"
      [] c = "g" -> "G"
      [] c = "h" -> "H"
      [] c = "i" -> "I"
      [] c = "j" -> "J"
      [] c = "k" -> "K"
      [] c = "l" -> "L"
      [] c = "m" -> "M"
      [] c = "n" -> "N"
      [] c = "o" -> "O"
      [] c = "p" -> "P"
      [] c = "q" -> "Q"
      [] c = "r" -> "R"
      [] c = "s" -> "S"
      [] c = "t" -> "T"
      [] c = "u" -> "U"
      [] c = "v" -> "V"
      [] c = "w" -> "W"
      [] c = "x" -> "X"
      [] c = "y" -> "Y"
      [] c = "z" -> "Z"
      [] OTHER -> c

\* str.upper()
upper(s) == [i \in 1..Len(s) |-> upper_char(s[i])]

allowedStringOptions ==
    [ opt_type |-> {MIN, TS, IRC},
      step_type |-> {RFO, RS_I_RFO, P_RFO, NR, SD, LINESEARCH, CONJUGATE},
      opt_coordinates |-> {REDUNDANT, INTERNAL, DELOCALIZED, NATURAL, CARTESIAN, BOTH},
      irc_direction |-> {FORWARD, BACKWARD},
      g_convergence |-> {QCHEM, MOLPRO, GAU, GAU_LOOSE, GAU_TIGHT, GAU_VERYTIGHT,
                         TURBOMOLE, CFOUR, NWCHEM_LOOSE, INTERFRAG_TIGHT},
      hess_update |-> {NONE, BFGS, MS, POWELL, BOFILL},
      intrafrag_hess |-> {SCHLEGEL, FISCHER, SCHLEGEL, SIMPLE, LINDH, LINDH_SIMPLE},
      frag_mode |-> {SINGLE, MULTI},
      interfrag_mode |-> {FIXED, PRINCIPAL_AXES},
      interfrag_hess |-> {DEFAULT, FISCHER_LIKE},
      conjugate_gradient_type |-> {FLETCHER, DESCENT, POLAK} ]

\* the class attributes of OptParams that are string_option properties
StringProperties ==
    {"opt_type", "step_type", "opt_coordinates", "irc_direction", "g_convergence",
     "hess_update", "intrafrag_hess", "frag_mode", "conjugate_gradient_type"}

\* instance.__dict__[name] = value
Store(d, name, value) == (name :> value) @@ d

\* string_option_getter
string_option_getter(instance, storage_name) == instance[storage_name]

\* string_option_setter accepting every value
string_option_setter_unchecked(instance, storage_name, value) ==
    [ok |-> TRUE, d |-> Store(instance, storage_name, upper(value))]

\* string_option_setter storing the value as given instead of upper-cased
string_option_setter_as_given(instance, storage_name, value) ==
    IF upper(value) \in allowedStringOptions[storage_name]
    THEN [ok |-> TRUE, d |-> Store(instance, storage_name, value)]
    ELSE [ok |-> FALSE, d |-> instance]

\* string_option_setter: the new __dict__, or the OptError it raises
string_option_setter(instance, storage_name, value) ==
    IF upper(value) \in allowedStringOptions[storage_name]
    THEN [ok |-> TRUE, d |-> Store(instance, storage_name, upper(value))]
    ELSE [ok |-> FALSE, d |-> instance]

\* uod.get(key, default)
Get(m, key, default) == IF key \in DOMAIN m THEN m[key] ELSE default

\* a __dict__ with no attribute yet; also stands for "no object" when construction failed
EmptyDict == <<>>

\* misc.int_fx_string / int_xyz_fx_string: the list of external-force records of a
\* specification text: none for the empty text, otherwise at least one
int_fx_string(text) == IF text = <<>> THEN <<>> ELSE <<text>>

\* the five convergence criteria, in the order (flag, threshold) of the constructor
Criteria == {"max_force", "rms_force", "max_DE", "max_disp", "rms_disp"}

\* Preset with the CFOUR branch of MOLPRO
Preset_cfour(g) ==
    CASE g \in {QCHEM} -> [max_force |-> 3000, max_DE |-> 10, max_disp |-> 12000]
      [] g \in {MOLPRO, CFOUR} -> [max_force |-> 3000, max_DE |-> 10, max_disp |-> 3000]
      [] g = GAU -> [max_force |-> 4500, rms_force |-> 3000, max_disp |-> 18000, rms_disp |-> 12000]
      [] g = GAU_TIGHT -> [max_force |-> 150, rms_force |-> 100, max_disp |-> 600, rms_disp |-> 400]
      [] g = GAU_VERYTIGHT -> [max_force |-> 20, rms_force |-> 10, max_disp |-> 60, rms_disp |-> 40]
      [] g = GAU_LOOSE -> [max_force |-> 25000, rms_force |-> 17000, max_disp |-> 100000, rms_disp |-> 67000]
      [] g = TURBOMOLE -> [max_force |-> 10000, rms_force |-> 5000, max_DE |-> 10,
                           max_disp |-> 10000, rms_disp |-> 5000]
      [] g = NWCHEM_LOOSE -> [max_force |-> 45000, rms_force |-> 30000, max_disp |-> 54000,
                              rms_disp |-> 36000]
      [] g = INTERFRAG_TIGHT -> [max_force |-> 150, rms_force |-> 100, max_DE |-> 100,
                                 max_disp |-> 6000, rms_disp |-> 4000]
      [] OTHER -> EmptyDict

\* OptParams.__init__, lines 480-573: the thresholds a g_convergence preset activates;
\* a criterion the preset does not mention is absent from the mapping
Preset(g) ==
    CASE g = QCHEM -> [max_force |-> 3000, max_DE |-> 10, max_disp |-> 12000]
      [] g = MOLPRO -> [max_force |-> 3000, max_DE |-> 10, max_disp |-> 3000]
      [] g = GAU -> [max_force |-> 4500, rms_force |-> 3000, max_disp |-> 18000, rms_disp |-> 12000]
      [] g = GAU_TIGHT -> [max_force |-> 150, rms_force |-> 100, max_disp |-> 600, rms_disp |-> 400]
      [] g = GAU_VERYTIGHT -> [max_force |-> 20, rms_force |-> 10, max_disp |-> 60, rms_disp |-> 40]
      [] g = GAU_LOOSE -> [max_force |-> 25000, rms_force |-> 17000, max_disp |-> 100000, rms_disp |-> 67000]
      [] g = TURBOMOLE -> [max_force |-> 10000, rms_force |-> 5000, max_DE |-> 10,
                           max_disp |-> 10000, rms_disp |-> 5000]
      [] g = CFOUR -> [rms_force |-> 1000]
      [] g = NWCHEM_LOOSE -> [max_force |-> 45000, rms_force |-> 30000, max_disp |-> 54000, rms_disp |-> 36000]
      [] g = INTERFRAG_TIGHT -> [max_DE |-> 100, max_force |-> 150, rms_force |-> 100,
                                 max_disp |-> 6000, rms_disp |-> 4000]
      [] OTHER -> EmptyDict

\* whether the if/elif chain of lines 480-573 takes a branch (each sets i_untampered)
PresetMatched(g) ==
    g \in {QCHEM, MOLPRO, GAU, GAU_TIGHT, GAU_VERYTIGHT, GAU_LOOSE, TURBOMOLE, CFOUR,
           NWCHEM_LOOSE, INTERFRAG_TIGHT}

\* the user option that overrides one criterion (lines 578-597)
ThresholdKey(c) ==
    CASE c = "max_force" -> "MAX_FORCE_G_CONVERGENCE"
      [] c = "rms_force" -> "RMS_FORCE_G_CONVERGENCE"
      [] c = "max_DE" -> "MAX_ENERGY_G_CONVERGENCE"
      [] c = "max_disp" -> "MAX_DISP_G_CONVERGENCE"
      [] c = "rms_disp" -> "RMS_DISP_G_CONVERGENCE"

\* CriterionFlag without the activation by the preset
CriterionFlag_user_only(u, g, c) == ThresholdKey(c) \in DOMAIN u

\* lines 468-597 for one criterion: its i_* flag
CriterionFlag(u, g, c) ==
    IF ThresholdKey(c) \in DOMAIN u THEN TRUE ELSE c \in DOMAIN Preset(g)

\* lines 468-597 for one criterion: its conv_* threshold, from the *_g_convergence attribute
CriterionThreshold(u, g, c, attr) ==
    IF ThresholdKey(c) \in DOMAIN u THEN attr
    ELSE IF c \in DOMAIN Preset(g) THEN Preset(g)[c] ELSE -10000000

\* Untampered without the final flexible_g_convergence override
Untampered_strict(u, g, flexible) ==
    IF \E c \in Criteria : ThresholdKey(c) \in DOMAIN u THEN FALSE
    ELSE PresetMatched(g)

\* lines 473-601: i_untampered
Untampered(u, g, flexible) ==
    IF flexible THEN TRUE
    ELSE IF \E c \in Criteria : ThresholdKey(c) \in DOMAIN u THEN FALSE
    ELSE PresetMatched(g)

\* the string_option assignments of the constructor from uod, in source order
\* (lines 111, 113, 120, 127, 143, 235, 253, 281, 299)
CtorStringInputs(u) ==
    [ opt_type |-> Get(u, "OPT_TYPE", MIN),
      step_type |-> Get(u, "STEP_TYPE", RFO),
      conjugate_gradient_type |-> Get(u, "CONJUGATE_GRADIENT_TYPE", FLETCHER),
      opt_coordinates |-> Get(u, "OPT_COORDINATES", REDUNDANT),
      irc_direction |-> Get(u, "IRC_DIRECTION", FORWARD),
      g_convergence |-> Get(u, "G_CONVERGENCE", QCHEM),
      hess_update |-> Get(u, "HESS_UPDATE", BFGS),
      intrafrag_hess |-> Get(u, "INTRAFRAG_HESS", SCHLEGEL),
      frag_mode |-> Get(u, "FRAG_MODE", SINGLE) ]

\* whether every string_option assignment of the constructor from uod is accepted
CtorStringsValid(u) ==
    \A n \in StringProperties :
        string_option_setter(EmptyDict, n, CtorStringInputs(u)[n]).ok

\* the value a string_option assignment stores when it is accepted
Stored(name, value) == string_option_setter(EmptyDict, name, value).d[name]

\* OptParams.__init__, lines 91-361: the literal defaults overridden by uod
\* (every string_option assignment accepted)
Literal(u) ==
    [ geom_maxiter |-> Get(u, "geom_maxiter", 50),
      alg_geom_maxiter |->
          IF "geom_maxiter" \in DOMAIN u /\ "alg_geom_maxiter" \notin DOMAIN u
          THEN Get(u, "geom_maxiter", 50)
          ELSE Get(u, "alg_geom_maxiter", 50),
      print_lvl |-> Get(u, "print", 1),
      opt_type |-> Stored("opt_type", Get(u, "OPT_TYPE", MIN)),
      step_type |-> Stored("step_type", Get(u, "STEP_TYPE", RFO)),
      conjugate_gradient_type |-> Stored("conjugate_gradient_type", Get(u, "CONJUGATE_GRADIENT_TYPE", FLETCHER)),
      opt_coordinates |-> Stored("opt_coordinates", Get(u, "OPT_COORDINATES", REDUNDANT)),
      rfo_root |-> Get(u, "RFO_ROOT", 0),
      dynamic_level |-> Get(u, "DYNAMIC_LEVEL", 0),
      dynamic_level_max |->
          IF Get(u, "DYNAMIC_LEVEL", 0) = 0 THEN 0 ELSE Get(u, "DYNAMIC_LEVEL_MAX", 6),
      irc_direction |-> Stored("irc_direction", Get(u, "IRC_DIRECTION", FORWARD)),
      irc_points |-> Get(u, "IRC_POINTS", 20),
      intrafrag_trust |->
          IF Get(u, "INTRAFRAG_STEP_LIMIT_MAX", 10000) < Get(u, "INTRAFRAG_STEP_LIMIT", 5000)
          THEN Get(u, "INTRAFRAG_STEP_LIMIT_MAX", 10000)
          ELSE Get(u, "INTRAFRAG_STEP_LIMIT", 5000),
      intrafrag_trust_min |-> Get(u, "INTRAFRAG_STEP_LIMIT_MIN", 10),
      intrafrag_trust_max |-> Get(u, "INTRAFRAG_STEP_LIMIT_MAX", 10000),
      consecutive_backsteps_allowed |-> Get(u, "CONSECUTIVE_BACKSTEPS", 0),
      working_consecutive_backsteps |-> 0,
      ext_force_distance |-> int_fx_string(Get(u, "EXT_FORCE_DISTANCE", <<>>)),
      ext_force_bend |-> int_fx_string(Get(u, "EXT_FORCE_BEND", <<>>)),
      ext_force_dihedral |-> int_fx_string(Get(u, "EXT_FORCE_DIHEDRAL", <<>>)),
      ext_force_oofp |-> int_fx_string(Get(u, "EXT_FORCE_OOFP", <<>>)),
      ext_force_cartesian |-> int_fx_string(Get(u, "EXT_FORCE_CARTESIAN", <<>>)),
      g_convergence |-> Stored("g_convergence", Get(u, "G_CONVERGENCE", QCHEM)),
      max_force_g_convergence |-> Get(u, "MAX_FORCE_G_CONVERGENCE", 3000),
      rms_force_g_convergence |-> Get(u, "RMS_FORCE_G_CONVERGENCE", 3000),
      max_energy_g_convergence |-> Get(u, "MAX_ENERGY_G_CONVERGENCE", 10),
      max_disp_g_convergence |-> Get(u, "MAX_DISP_G_CONVERGENCE", 12000),
      rms_disp_g_convergence |-> Get(u, "RMS_DISP_G_CONVERGENCE", 12000),
      flexible_g_convergence |-> Get(u, "FLEXIBLE_G_CONVERGENCE", FALSE),
      hess_update |-> Stored("hess_update", Get(u, "HESS_UPDATE", BFGS)),
      cart_hess_read |-> Get(u, "CART_HESS_READ", FALSE),
      full_hess_every |-> Get(u, "FULL_HESS_EVERY", -1),
      intrafrag_hess |-> Stored("intrafrag_hess", Get(u, "INTRAFRAG_HESS", SCHLEGEL)),
      bt_max_iter |-> Get(u, "bt_max_iter", 25),
      frag_mode |->
          IF Get(u, "INTERFRAG_COORDS", "None") # "None"
          THEN Stored("frag_mode", MULTI)
          ELSE Stored("frag_mode", Get(u, "FRAG_MODE", SINGLE)),
      interfrag_mode |-> Get(u, "INTERFRAG_MODE", FIXED),
      interfrag_coords |-> Get(u, "INTERFRAG_COORDS", "None"),
      generate_intcos_exit |-> Get(u, "GENERATE_INTCOS_EXIT", FALSE),
      keep_intcos |-> Get(u, "KEEP_INTCOS", FALSE),
      sd_hessian |-> Get(u, "SD_HESSIAN", 10) ]

\* ts_rule requiring both a step_type of RFO and no STEP_TYPE key
ts_rule_both(u, p) == p.opt_type = TS /\ p.step_type = RFO /\ "STEP_TYPE" \notin DOMAIN u

\* OptParams.__init__, lines 366-367: whether a transition-state search gets RS_I_RFO
ts_rule(u, p) == p.opt_type = TS /\ (p.step_type = RFO \/ "STEP_TYPE" \notin DOMAIN u)

\* an attribute created only when the condition holds
Optional(cond, name, value) == IF cond THEN name :> value ELSE EmptyDict

\* OptParams.__init__, lines 363-461 ("Complicated defaults"), applied to the
\* attributes p that lines 91-361 have set
Derived(u, p) ==
    LET \* lines 366-369
        step_type == IF ts_rule(u, p) THEN Stored("step_type", RS_I_RFO) ELSE p.step_type
        intrafrag_trust == IF ts_rule(u, p) THEN 2000 ELSE p.intrafrag_trust
        \* lines 371-373
        geom_maxiter ==
            IF "GEOM_MAXITER" \notin DOMAIN u /\ p.opt_type = IRC
            THEN p.irc_points * p.geom_maxiter
            ELSE p.geom_maxiter
        \* lines 377-393
        intrafrag_trust_min ==
            IF "INTRAFRAG_TRUST_MIN" \in DOMAIN u THEN p.intrafrag_trust_min
            ELSE IF p.opt_coordinates = BOTH THEN intrafrag_trust \div 2
            ELSE IF step_type = SD THEN intrafrag_trust
            ELSE IF \E l \in {p.ext_force_distance, p.ext_force_bend, p.ext_force_dihedral,
                              p.ext_force_oofp, p.ext_force_cartesian} : l # <<>>
                 THEN intrafrag_trust \div 2
            ELSE p.intrafrag_trust_min
        \* lines 400-404
        cartesian_lindh == p.opt_coordinates = CARTESIAN /\ "INTRAFRAG_HESS" \notin DOMAIN u
    IN  \* lines 396-397, 403-404, 412-413, 416-417: attributes created on the way
        Optional("H_GUESS_EVERY" \notin DOMAIN u /\ p.intrafrag_hess = LINDH,
                 "h_guess_every", TRUE)
        @@ Optional(cartesian_lindh /\ "H_GUESS_EVERY" \notin DOMAIN u, "H_guess_every", FALSE)
        @@ Optional(p.opt_type = IRC /\ "PRINT_TRAJECTORY_XYZ_FILE" \notin DOMAIN u,
                    "print_trajectory_xyz_file", TRUE)
        @@ Optional(p.opt_type = IRC /\ "CART_HESS_READ" \notin DOMAIN u,
                    "read_cartesian_H", TRUE)
        @@ [ step_type |-> step_type,
             intrafrag_trust |-> intrafrag_trust,
             geom_maxiter |-> geom_maxiter,
             intrafrag_trust_min |-> intrafrag_trust_min,
             intrafrag_hess |->
                 IF cartesian_lindh THEN Stored("intrafrag_hess", LINDH) ELSE p.intrafrag_hess,
             \* lines 407-409
             hess_update |->
                 IF p.opt_type \in {TS, IRC} /\ "HESS_UPDATE" \notin DOMAIN u
                 THEN Stored("hess_update", BOFILL)
                 ELSE p.hess_update,
             \* lines 419-420
             keep_intcos |-> IF p.generate_intcos_exit THEN TRUE ELSE p.keep_intcos,
             \* lines 424-425
             full_hess_every |->
                 IF p.opt_type = IRC /\ p.full_hess_every < 0 THEN 0 ELSE p.full_hess_every,
             \* lines 429-430
             consecutive_backsteps_allowed |->
                 IF step_type = SD /\ "CONSECUTIVE_BACKSTEPS" \notin DOMAIN u
                 THEN 10
                 ELSE p.consecutive_backsteps_allowed,
             \* line 445
             fix_val_near_pi |-> 157 ]
        @@ p

\* OptParams.__init__, lines 467-601: the internal optimization parameters, from the
\* attributes p set so far
Convergence(u, p) ==
    [ i_max_force |-> CriterionFlag(u, p.g_convergence, "max_force"),
      i_rms_force |-> CriterionFlag(u, p.g_convergence, "rms_force"),
      i_max_DE |-> CriterionFlag(u, p.g_convergence, "max_DE"),
      i_max_disp |-> CriterionFlag(u, p.g_convergence, "max_disp"),
      i_rms_disp |-> CriterionFlag(u, p.g_convergence, "rms_disp"),
      i_untampered |-> Untampered(u, p.g_convergence, p.flexible_g_convergence),
      conv_max_force |->
          CriterionThreshold(u, p.g_convergence, "max_force", p.max_force_g_convergence),
      conv_rms_force |->
          CriterionThreshold(u, p.g_convergence, "rms_force", p.rms_force_g_convergence),
      conv_max_DE |->
          CriterionThreshold(u, p.g_convergence, "max_DE", p.max_energy_g_convergence),
      conv_max_disp |->
          CriterionThreshold(u, p.g_convergence, "max_disp", p.max_disp_g_convergence),
      conv_rms_disp |->
          CriterionThreshold(u, p.g_convergence, "rms_disp", p.rms_disp_g_convergence) ]
    @@ p

\* OptParams.__init__(uod): [ok |-> TRUE, d |-> the new object's __dict__], or
\* [ok |-> FALSE, d |-> EmptyDict] when a string_option assignment raises OptError
OptParams_init(u) ==
    IF CtorStringsValid(u)
    THEN [ok |-> TRUE, d |-> Convergence(u, Derived(u, Literal(u)))]
    ELSE [ok |-> FALSE, d |-> EmptyDict]

\* setattr(self, key, value): a string_option property validates, any other name is
\* stored in __dict__ as given
setattr(self, key, value) ==
    IF key \in StringProperties
    THEN string_option_setter(self, key, value)
    ELSE [ok |-> TRUE, d |-> Store(self, key, value)]

\* a block of assignments self.key = value, in order; the first one that raises ends it
RECURSIVE AssignAll(_, _)
AssignAll(self, assignments) ==
    IF assignments = <<>> THEN [ok |-> TRUE, d |-> self]
    ELSE LET r == setattr(self, Head(assignments)[1], Head(assignments)[2])
         IN  IF r.ok THEN AssignAll(r.d, Tail(assignments)) ELSE r

\* LevelSettings with the trust radii of run level 6 copied from run level 5
LevelSettings_trust6(run_level) ==
    CASE run_level = 1 ->
            << <<"opt_coordinates", REDUNDANT>>, <<"consecutiveBackstepsAllowed", 0>>,
               <<"step_type", RFO>> >>
      [] run_level = 2 ->
            << <<"opt_coordinates", REDUNDANT>>, <<"consecutiveBackstepsAllowed", 2>>,
               <<"step_type", RFO>>,
               <<"intrafrag_trust", 2000>>, <<"intrafrag_trust_min", 2000>>,
               <<"intrafrag_trust_max", 2000>> >>
      [] run_level = 3 ->
            << <<"opt_coordinates", BOTH>>, <<"consecutiveBackstepsAllowed", 2>>,
               <<"step_type", RFO>>,
               <<"intrafrag_trust", 1000>>, <<"intrafrag_trust_min", 1000>>,
               <<"intrafrag_trust_max", 1000>> >>
      [] run_level = 4 ->
            << <<"opt_coordinates", CARTESIAN>>, <<"consecutiveBackstepsAllowed", 2>>,
               <<"step_type", RFO>>, <<"intrafrag_hess", LINDH>>,
               <<"intrafrag_trust", 2000>>, <<"intrafrag_trust_min", 2000>>,
               <<"intrafrag_trust_max", 2000>> >>
      [] run_level \in {5, 6} ->
            << <<"opt_coordinates", CARTESIAN>>, <<"consecutiveBackstepsAllowed", 2>>,
               <<"step_type", SD>>, <<"sd_hessian", IF run_level = 5 THEN 3 ELSE 6>>,
               <<"intrafrag_trust", 3000>>, <<"intrafrag_trust_min", 3000>>,
               <<"intrafrag_trust_max", 3000>> >>

\* update_dynamic_level_params, lines 643-690: the assignments of the branch of a run level
LevelSettings(run_level) ==
    CASE run_level = 1 ->
            << <<"opt_coordinates", REDUNDANT>>, <<"consecutiveBackstepsAllowed", 0>>,
               <<"step_type", RFO>> >>
      [] run_level = 2 ->
            << <<"opt_coordinates", REDUNDANT>>, <<"consecutiveBackstepsAllowed", 2>>,
               <<"step_type", RFO>>,
               <<"intrafrag_trust", 2000>>, <<"intrafrag_trust_min", 2000>>,
               <<"intrafrag_trust_max", 2000>> >>
      [] run_level = 3 ->
            << <<"opt_coordinates", BOTH>>, <<"consecutiveBackstepsAllowed", 2>>,
               <<"step_type", RFO>>,
               <<"intrafrag_trust", 1000>>, <<"intrafrag_trust_min", 1000>>,
               <<"intrafrag_trust_max", 1000>> >>
      [] run_level = 4 ->
            << <<"opt_coordinates", CARTESIAN>>, <<"consecutiveBackstepsAllowed", 2>>,
               <<"step_type", RFO>>, <<"intrafrag_hess", LINDH>>,
               <<"intrafrag_trust", 2000>>, <<"intrafrag_trust_min", 2000>>,
               <<"intrafrag_trust_max", 2000>> >>
      [] run_level = 5 ->
            << <<"opt_coordinates", CARTESIAN>>, <<"consecutiveBackstepsAllowed", 2>>,
               <<"step_type", SD>>, <<"sd_hessian", 3>>,
               <<"intrafrag_trust", 3000>>, <<"intrafrag_trust_min", 3000>>,
               <<"intrafrag_trust_max", 3000>> >>
      [] run_level = 6 ->
            << <<"opt_coordinates", CARTESIAN>>, <<"consecutiveBackstepsAllowed", 2>>,
               <<"step_type", SD>>, <<"sd_hessian", 6>>,
               <<"intrafrag_trust", 1000>>, <<"intrafrag_trust_min", 1000>>,
               <<"intrafrag_trust_max", 1000>> >>

\* update_dynamic_level_params whose last branch is run level 6 instead of the raise
update_dynamic_level_params_else6(self, run_level) ==
    IF run_level = 0 THEN [ok |-> TRUE, d |-> self]
    ELSE IF run_level \in {1, 2, 3, 4, 5} THEN AssignAll(self, LevelSettings(run_level))
    ELSE AssignAll(self, LevelSettings(6))

\* update_dynamic_level_params(run_level): the new __dict__, or the OptError it raises
update_dynamic_level_params(self, run_level) ==
    IF run_level = 0 THEN [ok |-> TRUE, d |-> self]
    ELSE IF run_level \in {1, 2, 3, 4, 5, 6} THEN AssignAll(self, LevelSettings(run_level))
    ELSE [ok |-> FALSE, d |-> self]

\* OptParams.__setitem__
setitem(self, key, value) == setattr(self, key, value)

\* cls({}).__dict__: the basic default options
opt_dict == OptParams_init(EmptyDict).d

\* OptParams.from_internal_dict(params): the __dict__ of the object it returns
from_internal_dict(params) ==
    [key \in DOMAIN opt_dict |-> Get(params, key, opt_dict[key])]

(***************************************************************************)
(* Inputs.                                                                 *)
(***************************************************************************)
\* the option keys a caller may use, spelled as the caller spells them
CtorKeys ==
    <<"OPT_TYPE", "opt_type", "STEP_TYPE", "OPT_COORDINATES", "G_CONVERGENCE",
      "geom_maxiter", "GEOM_MAXITER", "IRC_POINTS",
      "INTRAFRAG_STEP_LIMIT", "INTRAFRAG_STEP_LIMIT_MIN", "INTRAFRAG_TRUST_MIN",
      "INTRAFRAG_STEP_LIMIT_MAX", "CONSECUTIVE_BACKSTEPS",
      "MAX_FORCE_G_CONVERGENCE", "RMS_FORCE_G_CONVERGENCE", "MAX_ENERGY_G_CONVERGENCE",
      "MAX_DISP_G_CONVERGENCE", "RMS_DISP_G_CONVERGENCE", "FLEXIBLE_G_CONVERGENCE",
      "CART_HESS_READ", "INTRAFRAG_HESS", "HESS_UPDATE", "H_GUESS_EVERY",
      "EXT_FORCE_DISTANCE", "INTERFRAG_COORDS", "FOO">>

\* the keys of the option mappings whose objects Spec follows through their life
LifeKeys ==
    <<"OPT_TYPE", "STEP_TYPE", "OPT_COORDINATES", "INTRAFRAG_STEP_LIMIT",
      "INTRAFRAG_STEP_LIMIT_MAX", "CONSECUTIVE_BACKSTEPS", "INTRAFRAG_HESS">>

\* the values tried for each key
KeyValues(k) ==
    CASE k = "OPT_TYPE" -> {ts_mc, irc_lc}
      [] k = "opt_type" -> {TS}
      [] k = "STEP_TYPE" -> {rfo, SD, NR, bogus}
      [] k = "OPT_COORDINATES" -> {both_lc, CARTESIAN}
      [] k = "G_CONVERGENCE" ->
            {QCHEM, MOLPRO, GAU, GAU_LOOSE, Gau_Tight_mc, GAU_VERYTIGHT, TURBOMOLE, CFOUR,
             NWCHEM_LOOSE, INTERFRAG_TIGHT}
      [] k = "geom_maxiter" -> {30}
      [] k = "GEOM_MAXITER" -> {30}
      [] k = "IRC_POINTS" -> {10}
      [] k = "INTRAFRAG_STEP_LIMIT" -> {3000}
      [] k = "INTRAFRAG_STEP_LIMIT_MIN" -> {500}
      [] k = "INTRAFRAG_TRUST_MIN" -> {500}
      [] k = "INTRAFRAG_STEP_LIMIT_MAX" -> {4000}
      [] k = "CONSECUTIVE_BACKSTEPS" -> {1}
      [] k \in {"MAX_FORCE_G_CONVERGENCE", "RMS_FORCE_G_CONVERGENCE",
                "MAX_ENERGY_G_CONVERGENCE", "MAX_DISP_G_CONVERGENCE",
                "RMS_DISP_G_CONVERGENCE"} -> {500}
      [] k = "FLEXIBLE_G_CONVERGENCE" -> {TRUE, FALSE}
      [] k = "CART_HESS_READ" -> {TRUE, FALSE}
      [] k = "INTRAFRAG_HESS" -> {fischer_lc, LINDH}
      [] k = "HESS_UPDATE" -> {MS}
      [] k = "H_GUESS_EVERY" -> {TRUE}
      [] k = "EXT_FORCE_DISTANCE" -> {<<"1", " ", "2", " ", "k">>}
      [] k = "INTERFRAG_COORDS" -> {"coords"}
      [] k = "FOO" -> {1}

\* the sets of at most n of the keys seq[i], seq[i+1], ...
RECURSIVE KeySets(_, _, _)
KeySets(seq, i, n) ==
    IF n = 0 \/ i > Len(seq) THEN {{}}
    ELSE KeySets(seq, i + 1, n) \cup {{seq[i]} \cup S : S \in KeySets(seq, i + 1, n - 1)}

\* the option mappings whose keys are exactly S
RECURSIVE Mappings(_)
Mappings(S) ==
    IF S = {} THEN {EmptyDict}
    ELSE LET k == CHOOSE x \in S : TRUE
         IN  UNION {{Store(m, k, v) : v \in KeyValues(k)} : m \in Mappings(S \ {k})}

CtorKeySets == KeySets(CtorKeys, 1, MaxKeys)

LifeKeySets == KeySets(LifeKeys, 1, InitKeys)

\* the run levels tried: the seven the method defines, and values on both sides of them
RunLevels == -1..9

\* the attribute assignments tried: for each string_option property a spelling of an
\* allowed value that is not upper-case, and a string that is no allowed value
Assignments ==
    {<<"opt_type", irc_lc>>, <<"opt_type", bogus>>,
     <<"step_type", sd_lc>>, <<"step_type", rfo>>, <<"step_type", bogus>>,
     <<"opt_coordinates", both_lc>>, <<"opt_coordinates", bogus>>,
     <<"irc_direction", backward_lc>>, <<"irc_direction", bogus>>,
     <<"g_convergence", Gau_Tight_mc>>, <<"g_convergence", bogus>>,
     <<"hess_update", bofill_lc>>, <<"hess_update", bogus>>,
     <<"intrafrag_hess", fischer_lc>>, <<"intrafrag_hess", bogus>>,
     <<"frag_mode", multi_lc>>, <<"frag_mode", bogus>>,
     <<"conjugate_gradient_type", polak_lc>>, <<"conjugate_gradient_type", bogus>>}

\* the item assignments tried: a property, a plain attribute, a new attribute
ItemAssignments ==
    {<<"step_type", sd_lc>>, <<"step_type", bogus>>, <<"geom_maxiter", 7>>, <<"note", 1>>}

\* the internal-name mappings tried with from_internal_dict
InternalDicts ==
    { EmptyDict,
      [step_type |-> SD, geom_maxiter |-> 7],
      [step_type |-> sd_lc],
      [opt_type |-> bogus, intrafrag_trust |-> 3000],
      [consecutiveBackstepsAllowed |-> 2, sd_hessian |-> 3] }

(***************************************************************************)
(* The state machine.  uod is the option mapping of the current object,    *)
(* P its __dict__ (EmptyDict while there is no object), err the outcome of *)
(* the last operation, lastOp the last operation and its arguments, nops   *)
(* the number of operations applied since construction.                    *)
(***************************************************************************)
Op(name, key, value, level) == [op |-> name, key |-> key, value |-> value, level |-> level]

Outcome(r) == IF r.ok THEN "none" ELSE "OptError"

InitWith(keysets) ==
    /\ \E S \in keysets : uod \in Mappings(S)
    /\ P = EmptyDict
    /\ err = "none"
    /\ lastOp = Op("new", "", <<>>, 0)
    /\ nops = 0
    /\ JsonIdle /\ TorsIdle

InitCtor == InitWith(CtorKeySets)

Init == InitWith(LifeKeySets)

\* P = OptParams(uod)
Construct ==
    /\ lastOp.op = "new"
    /\ LET r == OptParams_init(uod)
       IN  /\ P' = r.d
           /\ err' = Outcome(r)
    /\ lastOp' = Op("__init__", "", <<>>, 0)
    /\ UNCHANGED <<uod, nops, jsonVars, torsVars>>

HasObject == lastOp.op # "new" /\ P # EmptyDict

\* P.key = value
AttributeAssign ==
    /\ HasObject
    /\ nops < MaxOps
    /\ \E a \in Assignments :
          LET r == setattr(P, a[1], a[2])
          IN  /\ P' = r.d
              /\ err' = Outcome(r)
              /\ lastOp' = Op("setattr", a[1], a[2], 0)
    /\ nops' = nops + 1
    /\ UNCHANGED <<uod, jsonVars, torsVars>>

\* P[key] = value
SetItem ==
    /\ HasObject
    /\ nops < MaxOps
    /\ \E a \in ItemAssignments :
          LET r == setitem(P, a[1], a[2])
          IN  /\ P' = r.d
              /\ err' = Outcome(r)
              /\ lastOp' = Op("__setitem__", a[1], a[2], 0)
    /\ nops' = nops + 1
    /\ UNCHANGED <<uod, jsonVars, torsVars>>

\* P.update_dynamic_level_params(run_level)
UpdateDynamicLevelParams ==
    /\ HasObject
    /\ nops < MaxOps
    /\ \E run_level \in RunLevels :
          LET r == update_dynamic_level_params(P, run_level)
          IN  /\ P' = r.d
              /\ err' = Outcome(r)
              /\ lastOp' = Op("update_dynamic_level_params", "", <<>>, run_level)
    /\ nops' = nops + 1
    /\ UNCHANGED <<uod, jsonVars, torsVars>>

\* P = OptParams.from_internal_dict(params), params any mapping
FromInternalDict ==
    /\ HasObject
    /\ nops < MaxOps
    /\ \E params \in InternalDicts :
          /\ P' = from_internal_dict(params)
          /\ lastOp' = Op("from_internal_dict", "", params, 0)
    /\ err' = "none"
    /\ uod' = EmptyDict
    /\ nops' = nops + 1
    /\ UNCHANGED <<jsonVars, torsVars>>

\* P = OptParams.from_internal_dict(P.__dict__): restoring the externalized object
Restore ==
    /\ HasObject
    /\ nops < MaxOps
    /\ P' = from_internal_dict(P)
    /\ lastOp' = Op("from_internal_dict", "self", P, 0)
    /\ err' = "none"
    /\ uod' = EmptyDict
    /\ nops' = nops + 1
    /\ UNCHANGED <<jsonVars, torsVars>>

NextCtor == Construct

Next ==
    \/ Construct
    \/ AttributeAssign
    \/ SetItem
    \/ UpdateDynamicLevelParams
    \/ FromInternalDict
    \/ Restore

\* construction alone, over the wide set of option mappings
SpecCtor == InitCtor /\ [][NextCtor]_vars

\* the life of an object: construction, then assignments, level updates and restores
Spec == Init /\ [][Next]_vars

(***************************************************************************)
(* Properties.                                                             *)
(***************************************************************************)
\* the allowed values of the nine enumerated options, as the specification tables them
EnumeratedOptions ==
    [ opt_type |-> {MIN, TS, IRC},
      step_type |-> {RFO, RS_I_RFO, P_RFO, NR, SD, LINESEARCH, CONJUGATE},
      opt_coordinates |-> {REDUNDANT, INTERNAL, DELOCALIZED, NATURAL, CARTESIAN, BOTH},
      irc_direction |-> {FORWARD, BACKWARD},
      g_convergence |-> {QCHEM, MOLPRO, GAU, GAU_LOOSE, GAU_TIGHT, GAU_VERYTIGHT,
                         TURBOMOLE, CFOUR, NWCHEM_LOOSE, INTERFRAG_TIGHT},
      hess_update |-> {NONE, BFGS, MS, POWELL, BOFILL},
      intrafrag_hess |-> {SCHLEGEL, FISCHER, SIMPLE, LINDH, LINDH_SIMPLE},
      frag_mode |-> {SINGLE, MULTI},
      conjugate_gradient_type |-> {FLETCHER, DESCENT, POLAK} ]

Constructed == lastOp.op = "__init__" /\ err = "none"

\* the step just taken was the call update_dynamic_level_params(L)
Updated(L) == lastOp'.op = "update_dynamic_level_params" /\ lastOp'.level = L

\* C1: for each of the nine enumerated options, assigning a string whose upper-cased
\* form is an allowed value succeeds and the option reads back that upper-cased value;
\* assigning any other string fails with OptError and leaves the stored value as it was.
C1_EnumAssignment ==
    [][ (lastOp'.op \in {"setattr", "__setitem__"} /\ lastOp'.key \in DOMAIN EnumeratedOptions) =>
          LET n == lastOp'.key
              v == lastOp'.value
          IN  IF upper(v) \in EnumeratedOptions[n]
              THEN err' = "none" /\ string_option_getter(P', n) = upper(v)
              ELSE err' = "OptError" /\ string_option_getter(P', n) = string_option_getter(P, n)
      ]_vars

\* C1 witness: "sd" was assigned to step_type, which now reads "SD"
C1_Witness ==
    /\ lastOp.op = "setattr" /\ lastOp.key = "step_type" /\ lastOp.value = sd_lc
    /\ err = "none"
    /\ P.step_type = SD

\* the rows of the run-level table: coordinates, step type, and the value given to the
\* three trust radii (0 where they are left alone)
LevelTable ==
    << [coordinates |-> REDUNDANT, step |-> RFO, trust |-> 0],
       [coordinates |-> REDUNDANT, step |-> RFO, trust |-> 2000],
       [coordinates |-> BOTH, step |-> RFO, trust |-> 1000],
       [coordinates |-> CARTESIAN, step |-> RFO, trust |-> 2000],
       [coordinates |-> CARTESIAN, step |-> SD, trust |-> 3000],
       [coordinates |-> CARTESIAN, step |-> SD, trust |-> 1000] >>

TrustTriple(d) == <<d.intrafrag_trust, d.intrafrag_trust_min, d.intrafrag_trust_max>>

C3_BackstepsAllowed ==
    (lastOp.op = "update_dynamic_level_params" /\ lastOp.level \in 1..6) =>
        P.consecutive_backsteps_allowed = IF lastOp.level = 1 THEN 0 ELSE 2

EnumValid(d) == \A n \in DOMAIN EnumeratedOptions : n \in DOMAIN d => d[n] \in EnumeratedOptions[n]

\* C5 as stated: in every reachable state of a configuration object, however reached, each
\* of the nine enumerated options holds one of its allowed upper-cased values.
C5_AsStated == HasObject => EnumValid(P)

\* the step just taken restored from a mapping with an enumerated entry that is not an
\* allowed upper-cased value
RestoredInvalid == lastOp'.op = "from_internal_dict" /\ ~EnumValid(lastOp'.value)

\* the step just taken would have stored a value outside the allowed set
StoresInvalid ==
    \/ /\ lastOp'.op = "__init__"
       /\ \E n \in DOMAIN EnumeratedOptions :
             n \in {"opt_type", "step_type", "opt_coordinates", "g_convergence",
                    "intrafrag_hess", "hess_update"}
             /\ LET key == CASE n = "opt_type" -> "OPT_TYPE"
                             [] n = "step_type" -> "STEP_TYPE"
                             [] n = "opt_coordinates" -> "OPT_COORDINATES"
                             [] n = "g_convergence" -> "G_CONVERGENCE"
                             [] n = "intrafrag_hess" -> "INTRAFRAG_HESS"
                             [] n = "hess_update" -> "HESS_UPDATE"
                IN  key \in DOMAIN uod /\ upper(uod[key]) \notin EnumeratedOptions[n]
    \/ /\ lastOp'.op \in {"setattr", "__setitem__"}
       /\ lastOp'.key \in DOMAIN EnumeratedOptions
       /\ upper(lastOp'.value) \notin EnumeratedOptions[lastOp'.key]

\* C5 (amended): construction establishes, and attribute assignment, item assignment,
\* update_dynamic_level_params and from_internal_dict from a mapping whose enumerated
\* entries are allowed upper-cased values all preserve, that each of the nine enumerated
\* options holds one of its allowed upper-cased values; a construction or assignment
\* that would store any other value fails with OptError instead.  from_internal_dict
\* itself stores the entries of its mapping unvalidated.
C5_EnumInvariant ==
    [][ /\ (EnumValid(P) /\ ~RestoredInvalid) => EnumValid(P')
        /\ StoresInvalid => err' = "OptError"
      ]_vars

\* C5 witness: an object restored from a mapping with a valid step_type, then assigned to
C5_Witness ==
    /\ nops = 2
    /\ lastOp.op = "setattr" /\ lastOp.key = "opt_type" /\ err = "none"
    /\ P.step_type = SD /\ P.geom_maxiter = 7
    /\ EnumValid(P)

\* C6: construction from the empty option mapping yields opt_type MIN, step_type RFO,
\* g_convergence QCHEM, geom_maxiter 50, intrafrag_trust 0.5 and the QCHEM criteria:
\* max force 3.0e-4, max energy change 1.0e-6, max displacement 1.2e-3 active, the two
\* rms criteria inactive.
C6_EmptyMappingDefaults ==
    (lastOp.op = "__init__" /\ uod = EmptyDict) =>
        /\ err = "none"
        /\ P.opt_type = MIN /\ P.step_type = RFO /\ P.g_convergence = QCHEM
        /\ P.geom_maxiter = 50 /\ P.intrafrag_trust = 5000
        /\ P.i_max_force /\ P.i_max_DE /\ P.i_max_disp
        /\ P.conv_max_force = 3000 /\ P.conv_max_DE = 10 /\ P.conv_max_disp = 12000
        /\ ~P.i_rms_force /\ ~P.i_rms_disp

\* C6 witness: the object constructed from the empty mapping
C6_Witness == lastOp.op = "__init__" /\ uod = EmptyDict /\ P # EmptyDict /\ P.i_untampered

\* what the user asked for, upper-cased, or the literal default
UserOptType == upper(Get(uod, "OPT_TYPE", MIN))
UserStepType == upper(Get(uod, "STEP_TYPE", RFO))

\* intrafrag_trust as supplied or defaulted, clamped down to intrafrag_trust_max
UserTrust ==
    LET trust == Get(uod, "INTRAFRAG_STEP_LIMIT", 5000)
        max == Get(uod, "INTRAFRAG_STEP_LIMIT_MAX", 10000)
    IN  IF max < trust THEN max ELSE trust

C8_IrcGeomMaxiter ==
    Constructed =>
        P.geom_maxiter =
            IF UserOptType = IRC /\ "geom_maxiter" \notin DOMAIN uod
            THEN Get(uod, "IRC_POINTS", 20) * 50
            ELSE Get(uod, "geom_maxiter", 50)

\* the preset table of the specification: max force, rms force, max energy change, max
\* displacement, rms displacement; 0 marks a blank cell
PresetTable(g) ==
    CASE g = QCHEM -> <<3000, 0, 10, 12000, 0>>
      [] g = MOLPRO -> <<3000, 0, 10, 3000, 0>>
      [] g = GAU -> <<4500, 3000, 0, 18000, 12000>>
      [] g = GAU_TIGHT -> <<150, 100, 0, 600, 400>>
      [] g = GAU_VERYTIGHT -> <<20, 10, 0, 60, 40>>
      [] g = GAU_LOOSE -> <<25000, 17000, 0, 100000, 67000>>
      [] g = TURBOMOLE -> <<10000, 5000, 10, 10000, 5000>>
      [] g = CFOUR -> <<0, 1000, 0, 0, 0>>
      [] g = NWCHEM_LOOSE -> <<45000, 30000, 0, 54000, 36000>>
      [] g = INTERFRAG_TIGHT -> <<150, 100, 100, 6000, 4000>>

CriterionOrder == <<"max_force", "rms_force", "max_DE", "max_disp", "rms_disp">>

FlagsOf(d) == <<d.i_max_force, d.i_rms_force, d.i_max_DE, d.i_max_disp, d.i_rms_disp>>

ThresholdsOf(d) ==
    <<d.conv_max_force, d.conv_rms_force, d.conv_max_DE, d.conv_max_disp, d.conv_rms_disp>>

Supplied(i) == ThresholdKey(CriterionOrder[i]) \in DOMAIN uod

UserPreset == upper(Get(uod, "G_CONVERGENCE", QCHEM))

\* C9: constructing with a preset and no individual threshold option gives every
\* criterion with a table value its flag and that threshold, every criterion with a
\* blank cell no flag and threshold -1, and i_untampered true.
C9_PresetTable ==
    (Constructed /\ \A i \in 1..5 : ~Supplied(i)) =>
        /\ \A i \in 1..5 :
              IF PresetTable(UserPreset)[i] # 0
              THEN FlagsOf(P)[i] /\ ThresholdsOf(P)[i] = PresetTable(UserPreset)[i]
              ELSE ~FlagsOf(P)[i] /\ ThresholdsOf(P)[i] = -10000000
        /\ P.i_untampered

\* C9 witness: the CFOUR preset, which activates the rms force criterion alone
C9_Witness ==
    /\ Constructed
    /\ DOMAIN uod = {"G_CONVERGENCE"} /\ uod["G_CONVERGENCE"] = CFOUR
    /\ FlagsOf(P) = <<FALSE, TRUE, FALSE, FALSE, FALSE>>
    /\ P.conv_rms_force = 1000

\* C10: every individual threshold option the user supplies makes its criterion active
\* with the supplied threshold whatever the preset, the other criteria keep the preset's
\* flag and threshold, and i_untampered is true exactly when no individual threshold
\* was supplied or flexible_g_convergence is true.
C10_ThresholdOverrides ==
    Constructed =>
        /\ \A i \in 1..5 :
              IF Supplied(i)
              THEN FlagsOf(P)[i]
                   /\ ThresholdsOf(P)[i] = uod[ThresholdKey(CriterionOrder[i])]
              ELSE IF PresetTable(UserPreset)[i] # 0
              THEN FlagsOf(P)[i] /\ ThresholdsOf(P)[i] = PresetTable(UserPreset)[i]
              ELSE ~FlagsOf(P)[i] /\ ThresholdsOf(P)[i] = -10000000
        /\ P.i_untampered <=>
              ((\A i \in 1..5 : ~Supplied(i)) \/ Get(uod, "FLEXIBLE_G_CONVERGENCE", FALSE))

\* C10 witness: the rms displacement threshold supplied over the CFOUR preset, with
\* flexible_g_convergence set
C10_Witness ==
    /\ Constructed
    /\ DOMAIN uod = {"G_CONVERGENCE", "RMS_DISP_G_CONVERGENCE", "FLEXIBLE_G_CONVERGENCE"}
    /\ uod["G_CONVERGENCE"] = CFOUR /\ uod["FLEXIBLE_G_CONVERGENCE"]
    /\ FlagsOf(P) = <<FALSE, TRUE, FALSE, FALSE, TRUE>>
    /\ P.conv_rms_disp = 500 /\ P.i_untampered

\* whether the user supplied a non-empty external-force list
UserExtForce ==
    \E l \in {P.ext_force_distance, P.ext_force_bend, P.ext_force_dihedral,
              P.ext_force_oofp, P.ext_force_cartesian} : l # <<>>

\* C11: intrafrag_trust_min is the value the user supplied under the option the
\* constructor reads it from; without one it is intrafrag_trust/2 for opt_coordinates
\* BOTH, intrafrag_trust for step_type SD, intrafrag_trust/2 with an external-force
\* list, and 0.001 otherwise, from intrafrag_trust and step_type after the TS rule.
C11_TrustMin ==
    Constructed =>
        P.intrafrag_trust_min =
            IF "INTRAFRAG_STEP_LIMIT_MIN" \in DOMAIN uod THEN uod["INTRAFRAG_STEP_LIMIT_MIN"]
            ELSE IF P.opt_coordinates = BOTH THEN P.intrafrag_trust \div 2
            ELSE IF P.step_type = SD THEN P.intrafrag_trust
            ELSE IF UserExtForce THEN P.intrafrag_trust \div 2
            ELSE 10

\* C12: cart_hess_read is the user's CART_HESS_READ when supplied, and otherwise true
\* for opt_type IRC and false for any other opt_type.
C12_CartHessRead ==
    Constructed =>
        P.cart_hess_read =
            IF "CART_HESS_READ" \in DOMAIN uod THEN uod["CART_HESS_READ"]
            ELSE UserOptType = IRC

\* the same option name in the other letter case
CaseVariant(k) ==
    CASE k = "opt_type" -> "OPT_TYPE"
      [] k = "OPT_TYPE" -> "opt_type"
      [] k = "geom_maxiter" -> "GEOM_MAXITER"
      [] k = "GEOM_MAXITER" -> "geom_maxiter"

\* the mapping u with key k renamed to the other letter case
Rekeyed(u, k) ==
    [j \in (DOMAIN u \ {k}) \cup {CaseVariant(k)} |-> IF j = CaseVariant(k) THEN u[k] ELSE u[j]]

\* C13: option keys are accepted case-insensitively: constructing from the same mapping
\* with the letter case of a key changed yields identical attribute values, and a key
\* that names no option is ignored.
C13_KeyCaseInsensitive ==
    lastOp.op = "__init__" =>
        /\ \A k \in DOMAIN uod \cap {"opt_type", "OPT_TYPE", "geom_maxiter", "GEOM_MAXITER"} :
              CaseVariant(k) \notin DOMAIN uod => OptParams_init(Rekeyed(uod, k)).d = P
        /\ "FOO" \in DOMAIN uod =>
              OptParams_init([j \in DOMAIN uod \ {"FOO"} |-> uod[j]]).d = P

\* C14: restoring a freshly constructed or level-updated object from its own attribute
\* mapping yields an object with an equal attribute mapping: no attribute is dropped.
C14_RestoreRoundTrip ==
    (lastOp.op = "from_internal_dict" /\ lastOp.key = "self" /\ nops = 1) =>
        P = lastOp.value

(***************************************************************************)
(* The JSON adapter jsonSchema (src/optking/qcdbjson.py).                  *)
(*                                                                         *)
(* Python dicts and lists are objects on a heap: heap is the sequence of   *)
(* the objects allocated so far and a reference is an index into it (0 is  *)
(* None).  A dict holds, under the keys RefKeys, references to its nested   *)
(* dicts and lists, and plain values under every other key, so that        *)
(* copy.deepcopy and assignment by reference are different things.         *)
(***************************************************************************)
\* largest number of adapter calls after construction
MaxCalls == 2

Dict(v) == [kind |-> "dict", v |-> v]
List(v) == [kind |-> "list", v |-> v]

\* the keys of a document under which a nested dict or list is stored
RefKeys == <<"molecule", "model", "keywords", "optimizer", "geometry", "symbols">>

IsRefKey(k) == \E i \in 1..Len(RefKeys) : RefKeys[i] = k

\* d[k] = v on the dict at reference r
SetField(h, r, k, v) == [h EXCEPT ![r] = Dict(Store(h[r].v, k, v))]

\* del d[k] on the dict at reference r
DelField(h, r, k) == [h EXCEPT ![r] = Dict([j \in DOMAIN h[r].v \ {k} |-> h[r].v[j]])]

\* copy.deepcopy(x), lines 2, 14, 38: [h |-> the heap with the copy, r |-> the copy]
RECURSIVE deepcopy(_, _)
RECURSIVE copy_fields(_, _, _)
copy_fields(h, d, i) ==
    IF i > Len(RefKeys) THEN [h |-> h, d |-> d]
    ELSE IF RefKeys[i] \in DOMAIN d
    THEN LET c == deepcopy(h, d[RefKeys[i]])
         IN  copy_fields(c.h, Store(d, RefKeys[i], c.r), i + 1)
    ELSE copy_fields(h, d, i + 1)

deepcopy(h, r) ==
    IF h[r].kind = "list" THEN [h |-> Append(h, h[r]), r |-> Len(h) + 1]
    ELSE LET c == copy_fields(h, h[r].v, 1)
         IN  [h |-> Append(c.h, Dict(c.d)), r |-> Len(c.h) + 1]

\* the value of the object at reference r, nested objects in place of references
RECURSIVE Value(_, _)
Value(h, r) ==
    IF h[r].kind = "list" THEN h[r].v
    ELSE [k \in DOMAIN h[r].v |-> IF IsRefKey(k) THEN Value(h, h[r].v[k]) ELSE h[r].v[k]]

\* jsonSchema.__init__ keeping the caller's document instead of a copy of it
jsonSchema_init_no_copy(h, doc) ==
    IF h[doc].v.schema_name = "qc_schema_input"
    THEN [ok |-> TRUE,
          h |-> SetField(SetField(h, h[doc].v.molecule, "fix_com", TRUE),
                         h[doc].v.molecule, "fix_orientation", TRUE),
          self |-> doc]
    ELSE [ok |-> FALSE, h |-> h, self |-> 0]

\* jsonSchema.__init__(JSON_dict), lines 12-18: the heap afterwards and self.optking_json,
\* or ValueError("JSON file must match the qc_schema_input") and no adapter
jsonSchema_init(h, doc) ==
    IF h[doc].v.schema_name = "qc_schema_input"
    THEN LET c == deepcopy(h, doc)
         IN  [ok |-> TRUE,
              h |-> SetField(SetField(c.h, c.h[c.r].v.molecule, "fix_com", TRUE),
                             c.h[c.r].v.molecule, "fix_orientation", TRUE),
              self |-> c.r]
    ELSE [ok |-> FALSE, h |-> h, self |-> 0]

\* update_geom_and_driver writing the driver into the stored document before copying it
update_geom_and_driver_stored(h, self, geom, driver) ==
    LET c == deepcopy(SetField(SetField(h, h[self].v.molecule, "geometry", geom),
                               self, "driver", driver), self)
    IN  [h |-> c.h, ret |-> c.r]

\* lines 37-38: the stored geometry is replaced by geom itself, then the document copied
stored_then_copied(h, self, geom) ==
    deepcopy(SetField(h, h[self].v.molecule, "geometry", geom), self)

\* jsonSchema.update_geom_and_driver(geom, driver), lines 23-41: the heap afterwards and
\* the returned document json_for_input
update_geom_and_driver(h, self, geom, driver) ==
    LET c == stored_then_copied(h, self, geom)
    IN  [h |-> SetField(c.h, c.r, "driver", driver), ret |-> c.r]

\* find_optking_options returning the options without removing them
find_optking_options_keep(h, self) ==
    IF "optimizer" \in DOMAIN h[h[self].v.keywords].v
    THEN [h |-> h, ret |-> h[h[self].v.keywords].v.optimizer]
    ELSE [h |-> Append(h, Dict(EmptyDict)), ret |-> Len(h) + 1]

\* jsonSchema.find_optking_options(), lines 44-52: the heap afterwards and the returned
\* mapping, which is the stored sub-mapping itself or a new empty dict
find_optking_options(h, self) ==
    IF "optimizer" \in DOMAIN h[h[self].v.keywords].v
    THEN [h |-> DelField(h, h[self].v.keywords, "optimizer"),
          ret |-> h[h[self].v.keywords].v.optimizer]
    ELSE [h |-> Append(h, Dict(EmptyDict)), ret |-> Len(h) + 1]

\* jsonSchema.make_qcschema(geom, symbols, QM_method, basis, keywords), lines 137-157:
\* the heap with the document qcschema, and the document, before cls(qcschema)
make_qcschema(h, geom, symbols, QM_method, basis, keywords) ==
    [h |-> h \o << Dict([geometry |-> geom, symbols |-> symbols, fix_com |-> TRUE,
                         fix_orientation |-> TRUE]),
                   Dict([method |-> QM_method, basis |-> basis]),
                   Dict([schema_name |-> "qc_schema_input", schema_version |-> 1,
                         molecule |-> Len(h) + 1, driver |-> "", model |-> Len(h) + 2,
                         keywords |-> keywords]) >>,
     r |-> Len(h) + 3]

(***************************************************************************)
(* Inputs of the adapter: the caller's documents and arguments.            *)
(***************************************************************************)
SchemaNames == {"qc_schema_input", "qc_schema_output", "qcschema_input"}

\* what the caller's molecule holds for fix_com and fix_orientation
MoleculeFlags == {EmptyDict, [fix_com |-> FALSE, fix_orientation |-> FALSE],
                  [fix_com |-> TRUE, fix_orientation |-> FALSE]}

InputDrivers == {"", "energy"}

Geometries == {<<0, 0, 0, 0, 0, 1>>, <<0, 0, 0, 0, 0, 2>>}

\* the driver argument; "omitted" stands for a call without it
DriverArgs == {"omitted", "hessian", "energy"}

\* the caller's heap: geometry 1, symbols 2, molecule 3, model 4, the optimizer options 5,
\* keywords 6 (with or without the optimizer options), the document 7
InputHeap(schema_name, flags, optimizer, driver) ==
    << List(<<0, 0, 0, 0, 0, 0>>),
       List(<<"H", "H">>),
       Dict(flags @@ [geometry |-> 1, symbols |-> 2]),
       Dict([method |-> "hf", basis |-> "sto-3g"]),
       Dict([step_type |-> "SD"]),
       Dict(Optional(optimizer, "optimizer", 5) @@ [scf_type |-> "df"]),
       Dict([schema_name |-> schema_name, schema_version |-> 1, molecule |-> 3,
             driver |-> driver, model |-> 4, keywords |-> 6]) >>

JOp(op, geom, driver, ret, error) ==
    [op |-> op, geom |-> geom, driver |-> driver, ret |-> ret, err |-> error]

ParamsIdle ==
    /\ uod = EmptyDict /\ P = EmptyDict /\ err = "none"
    /\ lastOp = [op |-> "idle"] /\ nops = 0

InitJson ==
    /\ \E schema_name \in SchemaNames, flags \in MoleculeFlags, optimizer \in BOOLEAN,
          driver \in InputDrivers :
          heap = InputHeap(schema_name, flags, optimizer, driver)
    /\ JSON_dict = 7
    /\ optking_json = 0
    /\ jlast = JOp("new", 0, "", 0, "none")
    /\ ncalls = 0
    /\ ParamsIdle /\ TorsIdle

\* adapter = jsonSchema(JSON_dict)
JsonConstruct ==
    /\ jlast.op = "new"
    /\ LET r == jsonSchema_init(heap, JSON_dict)
       IN  /\ heap' = r.h
           /\ optking_json' = r.self
           /\ jlast' = JOp("__init__", 0, "", 0, IF r.ok THEN "none" ELSE "ValueError")
    /\ UNCHANGED <<JSON_dict, ncalls, paramVars, torsVars>>

\* adapter = jsonSchema.make_qcschema(geom, symbols, "hf", "sto-3g", keywords) from the
\* caller's geometry, symbols and keywords
MakeQcschema ==
    /\ jlast.op = "new"
    /\ LET q == make_qcschema(heap, 1, 2, "hf", "sto-3g", 6)
           r == jsonSchema_init(q.h, q.r)
       IN  /\ heap' = r.h
           /\ optking_json' = r.self
           /\ jlast' = JOp("make_qcschema", 0, "", 0, "none")
    /\ UNCHANGED <<JSON_dict, ncalls, paramVars, torsVars>>

HasAdapter == optking_json # 0 /\ ncalls < MaxCalls

\* adapter.update_geom_and_driver(geom[, driver]) with a list the caller has just built
UpdateGeomAndDriver ==
    /\ HasAdapter
    /\ \E g \in Geometries, driver \in DriverArgs :
          LET r == update_geom_and_driver(Append(heap, List(g)), optking_json,
                       Len(heap) + 1, IF driver = "omitted" THEN "gradient" ELSE driver)
          IN  /\ heap' = r.h
              /\ jlast' = JOp("update_geom_and_driver", Len(heap) + 1, driver, r.ret, "none")
    /\ ncalls' = ncalls + 1
    /\ UNCHANGED <<JSON_dict, optking_json, paramVars, torsVars>>

\* adapter.find_optking_options()
FindOptkingOptions ==
    /\ HasAdapter
    /\ LET r == find_optking_options(heap, optking_json)
       IN  /\ heap' = r.h
           /\ jlast' = JOp("find_optking_options", 0, "", r.ret, "none")
    /\ ncalls' = ncalls + 1
    /\ UNCHANGED <<JSON_dict, optking_json, paramVars, torsVars>>

NextJson ==
    \/ JsonConstruct
    \/ MakeQcschema
    \/ UpdateGeomAndDriver
    \/ FindOptkingOptions

\* the life of an adapter: construction, then updates and option extraction
SpecJson == InitJson /\ [][NextJson]_vars

(***************************************************************************)
(* Properties of the JSON adapter.                                         *)
(***************************************************************************)
\* the stored document before and after a step, the caller's document, and the document
\* or mapping the step returned
StoredBefore == Value(heap, optking_json)
StoredAfter == Value(heap', optking_json')
InputDocument == Value(heap, JSON_dict)
Returned == Value(heap', jlast'.ret)

HasOptimizer(doc) == "optimizer" \in DOMAIN doc.keywords

\* C15: constructing an adapter from a document whose schema_name is not
\* qc_schema_input fails (ValueError "JSON file must match the qc_schema_input") and
\* creates no adapter; from a qc_schema_input document it succeeds, the stored document
\* has molecule.fix_com and molecule.fix_orientation true whatever the input held, and
\* the caller's document is left as it was.
C15_Construction ==
    [][ jlast'.op = "__init__" =>
          IF InputDocument.schema_name = "qc_schema_input"
          THEN /\ jlast'.err = "none"
               /\ optking_json' # 0 /\ optking_json' # JSON_dict
               /\ StoredAfter.molecule.fix_com = TRUE
               /\ StoredAfter.molecule.fix_orientation = TRUE
               /\ Value(heap', JSON_dict) = InputDocument
          ELSE /\ jlast'.err = "ValueError"
               /\ optking_json' = 0
               /\ heap' = heap
      ]_vars

\* C15 witness: an adapter built from a document whose molecule had both flags false
C15_Witness ==
    /\ jlast.op = "__init__" /\ jlast.err = "none" /\ optking_json # 0
    /\ "fix_com" \in DOMAIN InputDocument.molecule
    /\ InputDocument.molecule.fix_com = FALSE
    /\ Value(heap, optking_json).molecule.fix_com = TRUE

\* the driver a call asks for
Requested(driver) == IF driver = "omitted" THEN "gradient" ELSE driver

\* C16: update_geom_and_driver(geom, driver) returns a document whose molecule.geometry
\* is geom and whose driver is the requested one (gradient when omitted), every other
\* field as in the stored document; in the stored document only molecule.geometry
\* changes, to geom, and no call changes the stored driver.
C16_UpdateGeomAndDriver ==
    [][ /\ jlast'.op = "update_geom_and_driver" =>
              /\ Returned = [StoredBefore EXCEPT !.molecule.geometry = Value(heap', jlast'.geom),
                                                 !.driver = Requested(jlast'.driver)]
              /\ StoredAfter = [StoredBefore EXCEPT
                                   !.molecule.geometry = Value(heap', jlast'.geom)]
        /\ optking_json # 0 => StoredAfter.driver = StoredBefore.driver
      ]_vars

\* C16 witness: a second update, asking for a Hessian, of an adapter whose stored driver
\* is still the input's
C16_Witness ==
    /\ jlast.op = "update_geom_and_driver" /\ jlast.driver = "hessian" /\ ncalls = 2
    /\ Value(heap, jlast.ret).driver = "hessian"
    /\ Value(heap, jlast.ret).molecule.geometry = <<0, 0, 0, 0, 0, 2>>
    /\ Value(heap, optking_json).driver = "energy"

\* C17: find_optking_options returns the optimizer sub-mapping of the stored keywords
\* and removes it from the stored document, or returns an empty mapping when there is
\* none; once removed it never comes back, so a later call returns the empty mapping;
\* and a document returned by update_geom_and_driver has an optimizer key under
\* keywords exactly when the stored document still has it.
C17_FindOptkingOptions ==
    [][ /\ jlast'.op = "find_optking_options" =>
              IF HasOptimizer(StoredBefore)
              THEN /\ Returned = StoredBefore.keywords.optimizer
                   /\ StoredAfter =
                        [StoredBefore EXCEPT !.keywords =
                            [k \in DOMAIN StoredBefore.keywords \ {"optimizer"} |->
                                StoredBefore.keywords[k]]]
              ELSE /\ Returned = EmptyDict
                   /\ StoredAfter = StoredBefore
        /\ (optking_json # 0 /\ ~HasOptimizer(StoredBefore)) => ~HasOptimizer(StoredAfter)
        /\ jlast'.op = "update_geom_and_driver" =>
              (HasOptimizer(Returned) <=> HasOptimizer(StoredBefore))
      ]_vars

\* C17 witness: the second of two calls on an adapter whose input had optimizer options
C17_Witness ==
    /\ jlast.op = "find_optking_options" /\ ncalls = 2
    /\ HasOptimizer(InputDocument)
    /\ Value(heap, jlast.ret) = EmptyDict
    /\ ~HasOptimizer(Value(heap, optking_json))

(***************************************************************************)
(* jsonSchema.get_JSON_result, a static method: it reads the document it   *)
(* is given and builds new arrays, so the document is a nested value here. *)
(* A returned value is [kind |-> "value", v |-> x], a returned tuple       *)
(* [kind |-> "tuple", v |-> <<x, y, ...>>], a return of None               *)
(* [kind |-> "None"], and a raised exception [kind |-> "raise", v |-> e].  *)
(***************************************************************************)
\* longest return_result array of a document given to get_JSON_result
MaxResultLen == 9

\* int(math.sqrt(n)), line 121
int_sqrt(n) == CHOOSE k \in 0..n : k * k <= n /\ n < (k + 1) * (k + 1)

\* the reshaped array filled column by column
reshape_by_columns(a, n) ==
    IF n * n = Len(a)
    THEN [ok |-> TRUE, v |-> [i \in 1..n |-> [j \in 1..n |-> a[(j - 1) * n + i]]]]
    ELSE [ok |-> FALSE, v |-> a]

\* return_result.shape = (n, n), line 122: numpy fills rows first, and raises ValueError
\* when the array does not have n * n entries
reshape(a, n) ==
    IF n * n = Len(a)
    THEN [ok |-> TRUE, v |-> [i \in 1..n |-> [j \in 1..n |-> a[(i - 1) * n + j]]]]
    ELSE [ok |-> FALSE, v |-> a]

ReturnValue(x) == [kind |-> "value", v |-> x]
ReturnTuple(t) == [kind |-> "tuple", v |-> t]
ReturnNone == [kind |-> "None"]
Raise(e) == [kind |-> "raise", v |-> e]

\* jsonSchema.get_JSON_result(json_data, driver, nuc), lines 95-134
get_JSON_result(json_data, driver, nuc) ==
    IF json_data.schema_name # "qc_schema_output" THEN ReturnNone
    ELSE IF driver = "gradient"
    THEN IF nuc
         THEN ReturnTuple(<<json_data.properties.return_energy, json_data.return_result,
                            json_data.properties.nuclear_repulsion_energy>>)
         ELSE ReturnTuple(<<json_data.properties.return_energy, json_data.return_result>>)
    ELSE IF driver = "hessian"
    THEN LET shaped == reshape(json_data.return_result,
                               int_sqrt(Len(json_data.return_result)))
         IN  IF ~shaped.ok THEN Raise("ValueError")
             ELSE IF nuc
             THEN ReturnTuple(<<shaped.v, json_data.properties.nuclear_repulsion_energy>>)
             ELSE ReturnValue(shaped.v)
    ELSE IF driver = "energy"
    THEN IF nuc
         THEN ReturnTuple(<<json_data.return_result,
                            json_data.properties.nuclear_repulsion_energy>>)
         ELSE ReturnValue(json_data.return_result)
    ELSE Raise("UnboundLocalError")

\* the documents a host returns: a result array of up to MaxResultLen entries 1, 2, ...
\* or a scalar result
OutputDocument(schema_name, driver, return_result) ==
    [schema_name |-> schema_name, driver |-> driver, return_result |-> return_result,
     success |-> TRUE,
     properties |-> [return_energy |-> -76, nuclear_repulsion_energy |-> 9]]

ResultArrays == {[i \in 1..n |-> i] : n \in 0..MaxResultLen}

ScalarResult == -75

\* the drivers answered with an array result and with a scalar result
ArrayDrivers == {"gradient", "hessian"}
ScalarDrivers == {"energy", "properties"}

InitResult ==
    /\ \E schema_name \in {"qc_schema_output", "qc_schema_input"} :
          \/ \E driver \in ArrayDrivers, return_result \in ResultArrays :
                heap = <<Dict(OutputDocument(schema_name, driver, return_result))>>
          \/ \E driver \in ScalarDrivers :
                heap = <<Dict(OutputDocument(schema_name, driver, ScalarResult))>>
    /\ JSON_dict = 1
    /\ optking_json = 0
    /\ jlast = [op |-> "new"]
    /\ ncalls = 0
    /\ ParamsIdle /\ TorsIdle

\* jsonSchema.get_JSON_result(json_data, driver[, nuc])
GetJSONResult ==
    /\ jlast.op = "new"
    /\ \E driver \in IF heap[JSON_dict].v.driver \in ScalarDrivers
                     THEN ScalarDrivers ELSE ArrayDrivers,
          nuc \in BOOLEAN :
          jlast' = [op |-> "get_JSON_result", driver |-> driver, nuc |-> nuc,
                    ret |-> get_JSON_result(heap[JSON_dict].v, driver, nuc)]
    /\ UNCHANGED <<heap, JSON_dict, optking_json, ncalls, paramVars, torsVars>>

NextResult == GetJSONResult

\* parsing the result of a calculation, over the documents a host returns
SpecResult == InitResult /\ [][NextResult]_vars

\* the document given to get_JSON_result, and the parts of it the result is made of
Parsed == heap[JSON_dict].v
Energy == Parsed.properties.return_energy
Nuc == Parsed.properties.nuclear_repulsion_energy
IsSquare(n) == \E k \in 0..n : k * k = n

\* the n x n matrix of an array of n * n entries, rows first
Matrix(a) ==
    LET n == CHOOSE k \in 0..Len(a) : k * k = Len(a)
    IN  [i \in 1..n |-> [j \in 1..n |-> a[(i - 1) * n + j]]]

Called(driver) ==
    /\ jlast.op = "get_JSON_result" /\ jlast.driver = driver
    /\ Parsed.schema_name = "qc_schema_output"

MaxAtom == 3
\* largest number of calls on a torsion after its construction
MaxTorsCalls == 3
\* largest number of those calls among which the derivatives are evaluated
MaxDerivCalls == 1

\* pc.pi, and op.Params.fix_val_near_pi (1.57)
pi == 314
fix_val_near_pi == 157

None == <<>>
Some(x) == <<x>>

\* SIMPLE.__init__(self, atoms, frozen, fixedEqVal): the attributes of the base class
SIMPLE_init(self, atoms, frozen, fixedEqVal) ==
    [atoms |-> atoms, frozen |-> frozen, fixedEqVal |-> fixedEqVal] @@ self

\* TORS.__init__(a, b, c, d, frozen, fixedEqVal), lines 10-16
TORS_init(a, b, c, d, frozen, fixedEqVal) ==
    SIMPLE_init([class |-> "TORS", near180 |-> 0],
                IF a < d THEN <<a, b, c, d>> ELSE <<d, c, b, a>>,
                frozen, fixedEqVal)

\* TORS.__eq__(self, other), lines 29-32
TORS_eq(self, other) ==
    IF "atoms" \notin DOMAIN other THEN Raise("AttributeError")
    ELSE IF self.atoms # other.atoms THEN ReturnValue(FALSE)
    ELSE IF other.class # "TORS" THEN ReturnValue(FALSE)
    ELSE ReturnValue(TRUE)

\* v3d.tors(geom[A], geom[B], geom[C], geom[D]), line 68: (check, tau)
v3d_tors(geom) == <<geom.check, geom.tau>>

\* TORS.q(self, geom), lines 67-79
q(self, geom) ==
    IF ~v3d_tors(geom)[1] THEN Raise("INTCO_EXCEPT")
    ELSE IF self.near180 = -1 /\ v3d_tors(geom)[2] > fix_val_near_pi
    THEN ReturnValue(v3d_tors(geom)[2] - 2 * pi)
    ELSE IF self.near180 = 1 /\ v3d_tors(geom)[2] < -1 * fix_val_near_pi
    THEN ReturnValue(v3d_tors(geom)[2] + 2 * pi)
    ELSE ReturnValue(v3d_tors(geom)[2])

\* lines 41-46: near180 from the value tval
orientation(tval) ==
    IF tval > fix_val_near_pi THEN 1
    ELSE IF tval < -1 * fix_val_near_pi THEN -1
    ELSE 0

\* TORS.updateOrientation(self, geom), lines 39-47: the torsion afterwards, and
\* the exception of q when it raises
updateOrientation(self, geom) ==
    IF q(self, geom).kind = "raise" THEN [self |-> self, ret |-> q(self, geom)]
    ELSE [self |-> [self EXCEPT !.near180 = orientation(q(self, geom).v)],
          ret |-> ReturnNone]

\* the truth value Python gives an optional number: false for None and for zero
truth(x) == x # None /\ x[1] # 0

\* TORS.__str__(self), lines 18-27: the pieces of the text in order, the bracket being
\* None when "[%.4f]" is not appended
TORS_str(self) ==
    [mark |-> IF self.frozen THEN "*" ELSE " ",
     letter |-> "D",
     indices |-> <<self.atoms[1] + 1, self.atoms[2] + 1, self.atoms[3] + 1, self.atoms[4] + 1>>,
     bracket |-> IF truth(self.fixedEqVal) THEN Some(self.fixedEqVal[1]) ELSE None]

\* line 96: the bound 1.0e-12 on 1 - cos^2, in units of 1.0e-12
degenerate_tol == 1

\* lines 95-97: a bend A-B-C or B-C-D at 0 or 180 degrees
degenerate(geom) == geom.sin2_u <= degenerate_tol \/ geom.sin2_v <= degenerate_tol

\* lines 103-115: the value tval of the first derivative for atom a and axis i, a
\* function of the geometry, a and i
tval1(geom, a, i) == geom.tau + 3 * a + i + 1

\* lines 99-122: the assignments to dqdx for a = k, k+1, ..., 3 and every axis
RECURSIVE DqDx_loop(_, _, _, _, _)
DqDx_loop(self, geom, dqdx, mini, k) ==
    IF k > 11 THEN dqdx
    ELSE DqDx_loop(self, geom,
                   [dqdx EXCEPT ![IF mini THEN k ELSE 3 * self.atoms[(k \div 3) + 1] + (k % 3)]
                                   = tval1(geom, k \div 3, k % 3)],
                   mini, k + 1)

\* the derivative routine that zeroes its buffer at a degenerate geometry
DqDx_zeroing(self, geom, dqdx, mini) ==
    IF degenerate(geom) THEN [dqdx |-> [x \in DOMAIN dqdx |-> 0], ret |-> ReturnNone]
    ELSE [dqdx |-> DqDx_loop(self, geom, dqdx, mini, 0), ret |-> ReturnNone]

\* TORS.DqDx(self, geom, dqdx, mini), lines 81-125: the buffer afterwards
DqDx(self, geom, dqdx, mini) ==
    IF degenerate(geom) THEN [dqdx |-> dqdx, ret |-> ReturnNone]
    ELSE [dqdx |-> DqDx_loop(self, geom, dqdx, mini, 0), ret |-> ReturnNone]

\* lines 166-224: the value tval of the second derivative for atoms a, b and axes i, j
tval2(geom, a, i, b, j) == geom.tau + (3 * a + i + 1) * (3 * b + j + 1)

\* lines 163-165: the k-th combination of a, b, i, j in loop order
Combination(k) == [a |-> k \div 36, b |-> (k \div 9) % 4, i |-> (k \div 3) % 3, j |-> k % 3]

\* lines 163-164: the pairs of a and b <= a
Pairs == {p \in (0..3) \X (0..3) : p[2] <= p[1]}

\* lines 226-227: the combinations, by their place in loop order, whose first or second
\* assignment is to the entry x = <<row, column>>
Dq2Dx2_writers(self, x) ==
    {36 * p[1] + 9 * p[2] + 3 * (x[1] % 3) + (x[2] % 3) :
        p \in {p \in Pairs : self.atoms[p[1] + 1] = x[1] \div 3 /\ self.atoms[p[2] + 1] = x[2] \div 3}}
    \cup
    {36 * p[1] + 9 * p[2] + 3 * (x[2] % 3) + (x[1] % 3) :
        p \in {p \in Pairs : self.atoms[p[2] + 1] = x[1] \div 3 /\ self.atoms[p[1] + 1] = x[2] \div 3}}

\* the value of the combination c
Dq2Dx2_value(geom, c) == tval2(geom, c.a, c.i, c.b, c.j)

\* the entry x after the loops: the value of the last combination that assigns it
Dq2Dx2_entry(geom, old, writers) ==
    IF writers = {} THEN old
    ELSE Dq2Dx2_value(geom, Combination(CHOOSE k \in writers : \A n \in writers : n <= k))

\* lines 163-227: the buffer after the loops over a, b <= a, i and j
Dq2Dx2_loop(self, geom, m) ==
    [x \in DOMAIN m |-> Dq2Dx2_entry(geom, m[x], Dq2Dx2_writers(self, x))]

\* TORS.Dq2Dx2(self, geom, dq2dx2), lines 134-228: the buffer afterwards
Dq2Dx2(self, geom, dq2dx2) ==
    IF degenerate(geom) THEN [dq2dx2 |-> dq2dx2, ret |-> ReturnNone]
    ELSE [dq2dx2 |-> Dq2Dx2_loop(self, geom, dq2dx2), ret |-> ReturnNone]

(***************************************************************************)
(* Inputs of the torsion.                                                  *)
(***************************************************************************)
Atoms == 0..MaxAtom

\* the torsions whose life SpecTors follows
LifeTorsions == {<<0, 1, 2, 3>>, <<3, 1, 1, 0>>}

\* the frozen flag and fixed value of a torsion
TorsOptions == {<<FALSE, None>>, <<TRUE, Some(0)>>, <<FALSE, Some(120)>>}

\* raw angles around the two thresholds and the branch cut, and a geometry for which
\* v3d.tors fails
RawAngles == {-313, -158, -157, 0, 157, 158, 314}
\* 1 - cos^2 of the bends A-B-C and B-C-D, in units of 1.0e-12: a bend at 0 or 180
\* degrees, a bend at the bound and one just past it, each beside a bend well away
Bends == {<<0, 1000000000>>, <<1000000000, 1>>, <<2, 1000000000>>}

\* geometries with both bends away from 0 and 180 degrees, and geometries for which
\* v3d.tors fails because a bend is within v3d_tors_angle_lim of 0 or 180 degrees
TorsGeometries == {[check |-> TRUE, tau |-> t, sin2_u |-> 1000000000, sin2_v |-> 2000000000] : t \in RawAngles}
                  \cup {[check |-> FALSE, tau |-> 0, sin2_u |-> b[1], sin2_v |-> b[2]] : b \in Bends}

\* the Cartesian components of the molecule
NCart == 3 * (MaxAtom + 1)

\* buffers as the caller supplies them: zeroed, or holding earlier values
Buffers(D) == {[x \in D |-> 0], [x \in D |-> 7]}

TorsArgs(atoms, options) ==
    [op |-> "new", a |-> atoms[1], b |-> atoms[2], c |-> atoms[3], d |-> atoms[4],
     frozen |-> options[1], fixedEqVal |-> options[2]]

InitTorsWith(tuples, options) ==
    /\ \E t \in tuples, o \in options : tlast = TorsArgs(t, o)
    /\ T = <<>>
    /\ ntors = 0
    /\ ParamsIdle /\ JsonIdle

InitTorsEq == InitTorsWith(Atoms \X Atoms \X Atoms \X Atoms, {<<FALSE, None>>})

InitTors == InitTorsWith(LifeTorsions, TorsOptions)

\* T = TORS(a, b, c, d, frozen, fixedEqVal)
TorsConstruct ==
    /\ tlast.op = "new"
    /\ T' = TORS_init(tlast.a, tlast.b, tlast.c, tlast.d, tlast.frozen, tlast.fixedEqVal)
    /\ tlast' = [tlast EXCEPT !.op = "__init__"]
    /\ UNCHANGED <<ntors, paramVars, jsonVars>>

\* objects that are not torsions: an out-of-plane angle over the atoms of self, one
\* over other atoms, and objects without atoms
NonTorsions(self) ==
    {SIMPLE_init([class |-> "OOFP", near180 |-> 0], self.atoms, FALSE, None),
     SIMPLE_init([class |-> "OOFP", near180 |-> 0], <<3, 2, 1, 0>>, FALSE, None),
     [class |-> "int"], [class |-> "NoneType"]}

\* T == TORS(a, b, c, d), and T == other for an object that is not a torsion
TorsEq ==
    /\ tlast.op = "__init__"
    /\ \/ \E a \in Atoms, b \in Atoms, c \in Atoms, d \in Atoms :
             tlast' = [op |-> "__eq__", args |-> <<a, b, c, d>>,
                       other |-> TORS_init(a, b, c, d, FALSE, None),
                       ret |-> TORS_eq(T, TORS_init(a, b, c, d, FALSE, None))]
       \/ \E other \in NonTorsions(T) :
             tlast' = [op |-> "__eq__", args |-> <<>>, other |-> other,
                       ret |-> TORS_eq(T, other)]
    /\ UNCHANGED <<T, ntors, paramVars, jsonVars>>

HasTorsion == T # <<>> /\ ntors < MaxTorsCalls

\* T.updateOrientation(geom)
UpdateOrientation ==
    /\ HasTorsion
    /\ \E geom \in TorsGeometries :
          /\ T' = updateOrientation(T, geom).self
          /\ tlast' = [op |-> "updateOrientation", geom |-> geom,
                       ret |-> updateOrientation(T, geom).ret]
    /\ ntors' = ntors + 1
    /\ UNCHANGED <<paramVars, jsonVars>>

\* T.q(geom)
TorsQ ==
    /\ HasTorsion
    /\ \E geom \in TorsGeometries :
          tlast' = [op |-> "q", geom |-> geom, ret |-> q(T, geom)]
    /\ ntors' = ntors + 1
    /\ UNCHANGED <<T, paramVars, jsonVars>>

\* the derivative routines are followed among the first calls on the torsion
CanDifferentiate == T # <<>> /\ ntors < MaxDerivCalls

DerivOp(op, geom, before, result, after) ==
    [op |-> op, geom |-> geom, before |-> before, after |-> after, ret |-> result.ret]

\* T.DqDx(geom, dqdx, mini)
TorsDqDx ==
    /\ CanDifferentiate
    /\ \E geom \in TorsGeometries, dqdx \in Buffers(0..(NCart - 1)), mini \in BOOLEAN :
          LET result == DqDx(T, geom, dqdx, mini)
          IN  tlast' = DerivOp("DqDx", geom, dqdx, result, result.dqdx)
    /\ ntors' = ntors + 1
    /\ UNCHANGED <<T, paramVars, jsonVars>>

\* T.Dq2Dx2(geom, dq2dx2)
TorsDq2Dx2 ==
    /\ CanDifferentiate
    /\ \E geom \in TorsGeometries, dq2dx2 \in Buffers((0..(NCart - 1)) \X (0..(NCart - 1))) :
          LET result == Dq2Dx2(T, geom, dq2dx2)
          IN  tlast' = DerivOp("Dq2Dx2", geom, dq2dx2, result, result.dq2dx2)
    /\ ntors' = ntors + 1
    /\ UNCHANGED <<T, paramVars, jsonVars>>

\* str(T)
TorsStr ==
    /\ HasTorsion
    /\ tlast' = [op |-> "__str__", ret |-> ReturnValue(TORS_str(T))]
    /\ ntors' = ntors + 1
    /\ UNCHANGED <<T, paramVars, jsonVars>>

NextTorsEq == TorsConstruct \/ TorsEq

NextTors == TorsConstruct \/ UpdateOrientation \/ TorsQ \/ TorsDqDx \/ TorsDq2Dx2 \/ TorsStr

\* construction and comparison of torsions over every tuple of atom indices
SpecTorsEq == InitTorsEq /\ [][NextTorsEq]_vars

\* the life of a torsion: construction, then orientation updates and evaluations
SpecTors == InitTors /\ [][NextTors]_vars

(***************************************************************************)
(* Properties of the torsion.                                              *)
(***************************************************************************)
\* C19: TORS(a,b,c,d) stores (a,b,c,d) if a < d and (d,c,b,a) otherwise, the stored
\* tuple has its first index less than its last, TORS(a,b,c,d) and TORS(d,c,b,a) store
\* the identical tuple and compare equal, and two torsions compare equal if and only if
\* their stored tuples are identical.
C19_Canonical ==
    /\ tlast.op \in {"__init__", "__eq__"} => T.atoms[1] < T.atoms[4]
    /\ tlast.op = "__init__" =>
          /\ T.atoms = IF tlast.a < tlast.d THEN <<tlast.a, tlast.b, tlast.c, tlast.d>>
                       ELSE <<tlast.d, tlast.c, tlast.b, tlast.a>>
          /\ TORS_init(tlast.d, tlast.c, tlast.b, tlast.a, FALSE, None).atoms = T.atoms
          /\ TORS_eq(T, TORS_init(tlast.d, tlast.c, tlast.b, tlast.a, FALSE, None))
                = ReturnValue(TRUE)
    /\ (tlast.op = "__eq__" /\ tlast.other.class = "TORS") =>
          tlast.ret = ReturnValue(tlast.other.atoms = T.atoms)

\* the raw angle of the geometry of the call just made
RawAngle == tlast'.geom.tau

\* C20: after every successful updateOrientation(geom), near180 is +1 if the raw angle
\* of geom exceeds 1.57, -1 if it is below -1.57 and 0 otherwise, whatever near180 was
\* before the call; near180 is always one of -1, 0, +1.
C20_Orientation ==
    /\ [](T # <<>> => T.near180 \in {-1, 0, 1})
    /\ [][ (tlast'.op = "updateOrientation" /\ tlast'.ret.kind # "raise") =>
              T'.near180 = IF RawAngle > 157 THEN 1 ELSE IF RawAngle < -157 THEN -1 ELSE 0
         ]_vars

\* the last call was a successful updateOrientation on a geometry of raw angle tau
Oriented(tau) ==
    tlast.op = "updateOrientation" /\ tlast.ret.kind # "raise" /\ tlast.geom.tau = tau

\* this step is a call of q that returns a value, on a geometry of raw angle tau
Evaluates(tau) ==
    tlast'.op = "q" /\ tlast'.geom.check /\ tlast'.geom.tau = tau

\* the value the stated rule of q gives for the raw angle and the orientation
Extended(near180, raw) ==
    IF near180 = -1 /\ raw > 157 THEN raw - 628
    ELSE IF near180 = 1 /\ raw < -157 THEN raw + 628
    ELSE raw

\* C21: q(geom) returns raw - 2*pi when near180 = -1 and raw > 1.57, raw + 2*pi when
\* near180 = +1 and raw < -1.57, and raw otherwise; hence when updateOrientation was
\* called on a geometry of raw angle above 1.57 and q is then called on one of raw angle
\* below -1.57, q returns a value greater than pi, and symmetrically a value of at most
\* -pi for the crossing in the other direction.
C21_ContinuousExtension ==
    /\ []((tlast.op = "q" /\ tlast.geom.check)
            => tlast.ret = ReturnValue(Extended(T.near180, tlast.geom.tau)))
    /\ [][ \A t1 \in RawAngles, t2 \in RawAngles :
              (Oriented(t1) /\ Evaluates(t2)) =>
                 /\ (t1 > 157 /\ t2 < -157) => tlast'.ret.v > 314
                 /\ (t1 < -157 /\ t2 > 157) => tlast'.ret.v <= -314
         ]_vars

\* C22: at a geometry with the bend A-B-C or B-C-D at 0 or 180 degrees (1 - cos^2 <=
\* 1e-12), DqDx and Dq2Dx2 return without raising and leave every entry of their buffer
\* at its pre-call value, whereas q at a geometry for which v3d.tors reports failure
\* raises the internal-coordinate exception and returns no value.
C22_Degenerate ==
    /\ (tlast.op \in {"DqDx", "Dq2Dx2"} /\ (tlast.geom.sin2_u <= 1 \/ tlast.geom.sin2_v <= 1))
          => (tlast.ret = ReturnNone /\ tlast.after = tlast.before)
    /\ (tlast.op = "q" /\ ~tlast.geom.check) => tlast.ret = Raise("INTCO_EXCEPT")

\* both derivative routines were called at a degenerate geometry with a buffer of
\* nonzero entries, which that geometry leaves alone and another overwrites
C22_Witness ==
    /\ tlast.op = "Dq2Dx2"
    /\ tlast.geom.sin2_v = 1
    /\ tlast.before[<<0, 0>>] = 7
    /\ tlast.after = tlast.before
    /\ Dq2Dx2(T, [tlast.geom EXCEPT !.sin2_v = 2], tlast.before).dq2dx2 # tlast.before
    /\ DqDx(T, tlast.geom, [x \in 0..(NCart - 1) |-> 7], FALSE).dqdx = [x \in 0..(NCart - 1) |-> 7]
    /\ q(T, tlast.geom).kind = "raise"

\* C24: comparing a torsion for equality with an object that is not a torsion yields
\* false and never raises, for another coordinate type over the same atoms and for an
\* object with no atom tuple.
C24_EqNonTorsion ==
    (tlast.op = "__eq__" /\ tlast.other.class # "TORS")
        => (tlast.ret.kind = "value" /\ tlast.ret.v = FALSE)

\* C25: the text of a torsion is '*' when frozen and a blank otherwise, then 'D' and
\* the four indices counted from 1, then the bracketed fixed value whenever a fixed
\* value is set, zero included; no bracket only when no fixed value is set.
C25_Rendering ==
    tlast.op = "__str__" =>
       /\ tlast.ret.v.mark = IF T.frozen THEN "*" ELSE " "
       /\ tlast.ret.v.letter = "D"
       /\ tlast.ret.v.indices = [n \in 1..4 |-> T.atoms[n] + 1]
       /\ tlast.ret.v.bracket = T.fixedEqVal

(***************************************************************************)
(* The trust radius over the life of a configuration: construction from    *)
(* the options that bear on it, then changes of the dynamic level.         *)
(***************************************************************************)
\* largest number of keys of an option mapping of SpecTrust
MaxTrustKeys == 2

\* the options that the trust radius and its bounds are computed from
TrustKeys ==
    <<"OPT_TYPE", "STEP_TYPE", "OPT_COORDINATES", "INTRAFRAG_STEP_LIMIT",
      "INTRAFRAG_STEP_LIMIT_MIN", "INTRAFRAG_STEP_LIMIT_MAX">>

\* the values tried for them: for the bounds, positive values on both sides of the
\* radius the constructor can set (0.2, 0.3 and 0.5)
TrustValues(k) ==
    CASE k = "INTRAFRAG_STEP_LIMIT_MIN" -> {500, 6000}
      [] k = "INTRAFRAG_STEP_LIMIT_MAX" -> {1000, 4000}
      [] OTHER -> KeyValues(k)

\* the option mappings whose keys are exactly S, with the values of TrustValues
RECURSIVE TrustMappings(_)
TrustMappings(S) ==
    IF S = {} THEN {EmptyDict}
    ELSE LET k == CHOOSE x \in S : TRUE
         IN  UNION {{Store(m, k, v) : v \in TrustValues(k)} : m \in TrustMappings(S \ {k})}

InitTrust ==
    /\ \E S \in KeySets(TrustKeys, 1, MaxTrustKeys) : uod \in TrustMappings(S)
    /\ P = EmptyDict
    /\ err = "none"
    /\ lastOp = Op("new", "", <<>>, 0)
    /\ nops = 0
    /\ JsonIdle /\ TorsIdle

NextTrust == Construct \/ UpdateDynamicLevelParams

SpecTrust == InitTrust /\ [][NextTrust]_vars

\* C26: in every state reached by constructing a configuration from an option mapping
\* with positive trust values and then applying update_dynamic_level_params any number
\* of times, intrafrag_trust_min <= intrafrag_trust <= intrafrag_trust_max.
C26_TrustBounded ==
    P # EmptyDict =>
        /\ P.intrafrag_trust_min <= P.intrafrag_trust
        /\ P.intrafrag_trust <= P.intrafrag_trust_max

(***************************************************************************)
(* The adapter beside its caller: the caller keeps the document it gave,   *)
(* the geometry lists it passed and the documents it received, and may     *)
(* change any of them in place.                                            *)
(***************************************************************************)
\* the objects reachable from the reference r (none from None)
RECURSIVE Reach(_, _)
Reach(h, r) ==
    IF r = 0 THEN {}
    ELSE IF h[r].kind = "list" THEN {r}
    ELSE {r} \cup UNION {Reach(h, h[r].v[k]) : k \in {k \in DOMAIN h[r].v : IsRefKey(k)}}

\* the objects the caller can reach: through the input document, through the geometry
\* list of its last call and through what its last call returned
Held == Reach(heap, JSON_dict) \cup Reach(heap, jlast.geom) \cup Reach(heap, jlast.ret)

\* an in-place change of the object at r: l.pop() on a list, d["tampered"] = True on a dict
mutate(h, r) ==
    IF h[r].kind = "list"
    THEN [h EXCEPT ![r] = List(SubSeq(h[r].v, 1, Len(h[r].v) - 1))]
    ELSE SetField(h, r, "tampered", TRUE)

\* the caller changes one of its objects in place
CallerMutates ==
    /\ HasAdapter
    /\ \E r \in Held :
          /\ heap' = mutate(heap, r)
          /\ heap' # heap
          /\ jlast' = [jlast EXCEPT !.op = "mutate", !.driver = "", !.err = "none"]
    /\ ncalls' = ncalls + 1
    /\ UNCHANGED <<JSON_dict, optking_json, paramVars, torsVars>>

NextAlias == NextJson \/ CallerMutates

SpecAlias == InitJson /\ [][NextAlias]_vars

\* C27: the stored document shares no mutable structure with what the caller holds:
\* changing the input document, a geometry list passed to update_geom_and_driver or a
\* document it returned changes neither the stored document nor, therefore, a document
\* a later update_geom_and_driver returns.
C27_NoAliasing ==
    [][jlast'.op = "mutate" => Value(heap', optking_json) = Value(heap, optking_json)]_vars

====
